---- MODULE Spec2Model ----
(***************************************************************************)
(* A model of open_dataset_tools: the checksum-gated download cache        *)
(* (_get_aws_file and its helpers) and the SectionDataSet identifier index *)
(* of src/src/open_dataset_tools/aba_mouse_utils.py, together with the     *)
(* legacy index of src/metadata_utils.py; the image download of            *)
(* SectionDataSet in its three versions; the metadata loaders and the S3   *)
(* client they use; get_aws_keys of aws_utils.py; and the image promise,    *)
(* the section metadata cache and the image downloader of ivy_gap_utils.py. *)
(***************************************************************************)
EXTENDS Integers, Sequences, FiniteSets, TLC

VARIABLES
    \* ---- the remote store and the local cache path -------------------
    bucket,        \* object key index -> NoObj or [body, multipart]
    local,         \* the local path: [kind, body, mtime]
    clock,         \* the filesystem clock (the next mtime)
    remoteChanges, \* how many times the remote store was changed
    \* ---- one _get_aws_file call per process ---------------------------
    pc,            \* process -> position in _get_aws_file
    target_md5,    \* process -> the digest _need_to_download returned
    transferred,   \* process -> download_file was invoked in this call
    err,           \* process -> the exception the call raised
    startLocal,    \* process -> the local path as the call found it
    startListing,  \* process -> the listing the call obtained
    hit,           \* process -> the call began after a normal return,
                   \*            with no remote change since
    unchanged,     \* process -> no remote change since the call began
    calls,         \* calls of _get_aws_file made so far
    current,       \* a call returned normally and the remote store has
                   \* not changed since
    \* ---- the SectionDataSet index --------------------------------------
    batch,         \* metadata['section_images']: a sequence of records
    variant,       \* which module's SectionDataSet was constructed
    ds,            \* the SectionDataSet object
    lastCall,      \* the last lookup: [op, arg, result, raised, warning]
    \* ---- the image download of SectionDataSet -------------------------
    savepath,      \* local_savepath: [kind, body]
    scratch,       \* the scratch file of the current call exists
    leaked,        \* a scratch file of an earlier call still exists
    dl,            \* the download call: position, arguments, outcome
    \* ---- the metadata loaders ------------------------------------------
    cache,         \* the cached metadata file: "absent", "stale", "fresh"
    load,          \* the loader call: position, arguments, requests made
    remoteJson,    \* the text of the remote metadata object
    previous,      \* what the loader call before this one came to
    \* ---- get_aws_keys --------------------------------------------------
    credentials,   \* the filename argument and what is found under it
    keyCall,       \* the get_aws_keys call: its outcome
    \* ---- ivy_gap_utils ---------------------------------------------------
    ivyDir,        \* local_save_directory: what stands in it
    ivy,           \* the call of ivy_gap_utils: arguments, requests, outcome
    ivyLog,        \* the downloads of section_metadata.json so far
    \* ---- the caller of a SectionDataSet -------------------------------
    held           \* the value the caller got from the dataset and keeps

fetchVars == <<bucket, local, clock, remoteChanges, pc, target_md5,
               transferred, err, startLocal, startListing, hit, unchanged,
               calls, current>>

indexVars == <<batch, variant, ds, lastCall>>

imageVars == <<savepath, scratch, leaked, dl>>

loaderVars == <<cache, load, remoteJson, previous>>

keysVars == <<credentials, keyCall>>

ivyVars == <<ivyDir, ivy, ivyLog>>

callerVars == <<held>>

\* The variables of the subsystems modelled after the fetcher and the index.
restVars == <<imageVars, loaderVars, keysVars, ivyVars, callerVars>>

vars == <<fetchVars, indexVars, restVars>>

\* ---------------------------------------------------------------- bounds
NumBodies == 2
MaxCalls == 3
MaxRemoteChanges == 1
MaxId == 3
MaxImages == 2

Procs == {"p1", "p2"}
Bodies == 1 .. NumBodies

\* ------------------------------------------------------- the remote store
\* Object keys are character sequences; list_objects matches by prefix.
AwsKey == <<"k">>
SiblingKey == <<"k", "2">>
BucketKeys == <<AwsKey, SiblingKey>>

NoObj == [present |-> FALSE, body |-> 0, multipart |-> FALSE]
Objects == [present : {TRUE}, body : Bodies, multipart : BOOLEAN]

Quote == "q"
HexDigits == <<"a", "b", "c", "d", "e", "f">>

\* hashlib.md5 of a body: a hex digest, distinct for distinct bodies.
Md5(body) == <<"0", HexDigits[body]>>

\* The ETag the store reports: the quoted md5 of the body, or, for a
\* multipart upload, a quoted digest that is the md5 of no body.
ETag(obj) ==
    IF obj.multipart
    THEN <<Quote>> \o Md5(obj.body) \o <<"-", "2">> \o <<Quote>>
    ELSE <<Quote>> \o Md5(obj.body) \o <<Quote>>

IsPrefix(s, t) == Len(s) <= Len(t) /\ SubSeq(t, 1, Len(s)) = s

\* s3_client.list_objects(Bucket, Prefix)['Contents'] as a sequence of
\* [Key, ETag], in key order.
RECURSIVE ListFrom(_, _, _)
ListFrom(b, prefix, i) ==
    IF i > Len(BucketKeys) THEN <<>>
    ELSE (IF b[i].present /\ IsPrefix(prefix, BucketKeys[i])
          THEN <<[Key |-> BucketKeys[i], ETag |-> ETag(b[i])]>>
          ELSE <<>>) \o ListFrom(b, prefix, i + 1)

list_objects(b, prefix) == ListFrom(b, prefix, 1)

\* str.replace('"', '')
StripQuotes(s) == SelectSeq(s, LAMBDA c : c # Quote)

\* --------------------------------------------------------- the local path
Absent == [kind |-> "absent", body |-> 0, mtime |-> 0]
Directory == [kind |-> "dir", body |-> 0, mtime |-> 0]
File(body, mtime) == [kind |-> "file", body |-> body, mtime |-> mtime]

NoDigest == <<>>
NoError == "none"

\* Faulty variant: only an empty listing is refused; of several objects the first
\* is taken.
get_aws_md5_Errors_first(obj_list) ==
    IF Len(obj_list) = 0 THEN {"KeyError", "RuntimeError:listing"}
    ELSE {"none"}

\* _get_aws_md5: the digest of the single object the listing holds.  A
\* listing with no match has no 'Contents' entry (KeyError) or an empty
\* one (RuntimeError), as the client chooses.
get_aws_md5_Errors(obj_list) ==
    IF Len(obj_list) = 0 THEN {"KeyError", "RuntimeError:listing"}
    ELSE IF Len(obj_list) # 1 THEN {"RuntimeError:listing"}
    ELSE {NoError}

\* Faulty variant: the ETag is used as the store reports it, quotes included.
get_aws_md5_quoted(obj_list) == obj_list[1].ETag

get_aws_md5(obj_list) == StripQuotes(obj_list[1].ETag)

\* Faulty variant: the comparison always succeeds.
compare_md5_always(file, target) == TRUE

\* _compare_md5
compare_md5(file, target) == Md5(file.body) = target

\* Faulty variant: an existing file is always downloaded again.
need_to_download_nocache(loc, target) ==
    IF loc.kind = "absent"
    THEN [err |-> NoError, must_download |-> TRUE]
    ELSE IF loc.kind # "file"
    THEN [err |-> "RuntimeError:notfile", must_download |-> FALSE]
    ELSE [err |-> NoError, must_download |-> TRUE]

\* Faulty variant: a path that is no regular file is treated as missing.
need_to_download_nofilecheck(loc, target) ==
    IF loc.kind # "file"
    THEN [err |-> NoError, must_download |-> TRUE]
    ELSE [err |-> NoError, must_download |-> ~compare_md5(loc, target)]

\* _need_to_download, once the digest is known: [err, must_download]
need_to_download(loc, target) ==
    IF loc.kind = "absent"
    THEN [err |-> NoError, must_download |-> TRUE]
    ELSE IF loc.kind # "file"
    THEN [err |-> "RuntimeError:notfile", must_download |-> FALSE]
    ELSE [err |-> NoError, must_download |-> ~compare_md5(loc, target)]

\* The SectionDataSet index before any dataset is constructed.
NoDataSet == [status |-> "none"]
NoCall == [op |-> "none"]

IndexIdle ==
    /\ batch = <<>>
    /\ variant = "none"
    /\ ds = NoDataSet
    /\ lastCall = NoCall

\* The image download, the loaders and get_aws_keys before any call.
NoImageCall == [pc |-> "idle"]
NoLoad == [pc |-> "idle"]
NoKeysCall == [pc |-> "idle"]
NoCredentials == [filename |-> "None"]
NoIvyCall == [pc |-> "idle"]
NoIvyLog == [fetched |-> 0, failed |-> FALSE]
NoIvyDir == [exists |-> FALSE, metadata |-> "absent", images |-> {}]
NothingHeld == [attr |-> "none", value |-> <<>>, mutations |-> 0]
NoJson == <<>>
NoPrevious == [op |-> "none"]

\* What a path holds: nothing, or the pixels of an image.
NoBody == [image |-> <<>>, complete |-> TRUE, box |-> <<>>]
NoSavePath == [kind |-> "absent", body |-> NoBody]

ImageIdle ==
    /\ savepath = NoSavePath
    /\ scratch = FALSE
    /\ leaked = FALSE
    /\ dl = NoImageCall

LoaderIdle ==
    /\ cache = "absent"
    /\ load = NoLoad
    /\ remoteJson = NoJson
    /\ previous = NoPrevious

KeysIdle ==
    /\ credentials = NoCredentials
    /\ keyCall = NoKeysCall

IvyIdle ==
    /\ ivyDir = NoIvyDir
    /\ ivy = NoIvyCall
    /\ ivyLog = NoIvyLog

CallerIdle == held = NothingHeld

RestIdle == ImageIdle /\ LoaderIdle /\ KeysIdle /\ IvyIdle /\ CallerIdle

\* ------------------------------------------------------------------ Init
FetchInit ==
    /\ IndexIdle
    /\ RestIdle
    /\ bucket \in [1 .. Len(BucketKeys) -> {NoObj} \cup Objects]
    /\ ~bucket[2].multipart
    /\ local \in {Absent, Directory} \cup {File(b, 0) : b \in Bodies}
    /\ clock = 1
    /\ remoteChanges = 0
    /\ pc = [p \in Procs |-> "idle"]
    /\ target_md5 = [p \in Procs |-> NoDigest]
    /\ transferred = [p \in Procs |-> FALSE]
    /\ err = [p \in Procs |-> NoError]
    /\ startLocal = [p \in Procs |-> Absent]
    /\ startListing = [p \in Procs |-> <<>>]
    /\ hit = [p \in Procs |-> FALSE]
    /\ unchanged = [p \in Procs |-> FALSE]
    /\ calls = 0
    /\ current = FALSE

\* --------------------------------------------------------------- actions
\* _get_aws_file, lines 110-112: the call begins; _need_to_download lists
\* the remote objects and inspects the local path.
NeedToDownload(p) ==
    /\ pc[p] = "idle"
    /\ calls < MaxCalls
    /\ calls' = calls + 1
    /\ LET obj_list == list_objects(bucket, AwsKey)
       IN /\ startListing' = [startListing EXCEPT ![p] = obj_list]
          /\ startLocal' = [startLocal EXCEPT ![p] = local]
          /\ hit' = [hit EXCEPT ![p] = current]
          /\ unchanged' = [unchanged EXCEPT ![p] = TRUE]
          /\ transferred' = [transferred EXCEPT ![p] = FALSE]
          /\ \E e \in get_aws_md5_Errors(obj_list) :
               IF e # NoError
               THEN /\ err' = [err EXCEPT ![p] = e]
                    /\ pc' = [pc EXCEPT ![p] = "raised"]
                    /\ target_md5' = [target_md5 EXCEPT ![p] = NoDigest]
                    /\ current' = current
               ELSE LET target == get_aws_md5(obj_list)
                        r == need_to_download(local, target)
                    IN /\ target_md5' = [target_md5 EXCEPT ![p] = target]
                       /\ err' = [err EXCEPT ![p] = r.err]
                       /\ pc' = [pc EXCEPT ![p] =
                                   IF r.err # NoError THEN "raised"
                                   ELSE IF r.must_download THEN "download"
                                   ELSE "returned"]
                       /\ current' = (current \/
                                       (r.err = NoError /\ ~r.must_download))
    /\ UNCHANGED <<indexVars, restVars>>
    /\ UNCHANGED <<bucket, local, clock, remoteChanges>>

\* _get_aws_file, lines 114-120: s3_client.download_file writes the object
\* stored under exactly aws_key to local_filename; it raises when there is
\* no such object, or when local_filename is a directory.
Download(p) ==
    /\ pc[p] = "download"
    /\ transferred' = [transferred EXCEPT ![p] = TRUE]
    /\ IF bucket[1].present /\ local.kind # "dir"
       THEN /\ local' = File(bucket[1].body, clock)
            /\ clock' = clock + 1
            /\ pc' = [pc EXCEPT ![p] = "verify"]
            /\ err' = err
       ELSE /\ pc' = [pc EXCEPT ![p] = "raised"]
            /\ err' = [err EXCEPT ![p] =
                         IF bucket[1].present THEN "OSError"
                         ELSE "ClientError"]
            /\ UNCHANGED <<local, clock>>
    /\ UNCHANGED <<indexVars, restVars>>
    /\ UNCHANGED <<bucket, remoteChanges, target_md5, startLocal,
                   startListing, hit, unchanged, calls, current>>

\* _get_aws_file, lines 122-127: the digest of the file is compared with
\* the digest obtained before the transfer.
Verify(p) ==
    /\ pc[p] = "verify"
    /\ IF compare_md5(local, target_md5[p])
       THEN /\ pc' = [pc EXCEPT ![p] = "returned"]
            /\ err' = err
            /\ current' = (current \/ unchanged[p])
       ELSE /\ pc' = [pc EXCEPT ![p] = "raised"]
            /\ err' = [err EXCEPT ![p] = "RuntimeError:md5"]
            /\ current' = current
    /\ UNCHANGED <<indexVars, restVars>>
    /\ UNCHANGED <<bucket, local, clock, remoteChanges, target_md5,
                   transferred, startLocal, startListing, hit, unchanged,
                   calls>>

\* The caller has the result and may call again.
Finish(p) ==
    /\ pc[p] \in {"returned", "raised"}
    /\ calls < MaxCalls
    /\ pc' = [pc EXCEPT ![p] = "idle"]
    /\ err' = [err EXCEPT ![p] = NoError]
    /\ hit' = [hit EXCEPT ![p] = FALSE]
    /\ transferred' = [transferred EXCEPT ![p] = FALSE]
    /\ UNCHANGED <<indexVars, restVars>>
    /\ UNCHANGED <<bucket, local, clock, remoteChanges, target_md5,
                   startLocal, startListing, unchanged, calls, current>>

\* The owner of the bucket replaces, adds or deletes an object.
RemoteChange ==
    /\ remoteChanges < MaxRemoteChanges
    /\ remoteChanges' = remoteChanges + 1
    /\ \E i \in 1 .. Len(BucketKeys), o \in {NoObj} \cup Objects :
         /\ o # bucket[i]
         /\ i = 2 => ~o.multipart
         /\ bucket' = [bucket EXCEPT ![i] = o]
    /\ current' = FALSE
    /\ hit' = [p \in Procs |-> FALSE]
    /\ unchanged' = [p \in Procs |-> FALSE]
    /\ UNCHANGED <<indexVars, restVars>>
    /\ UNCHANGED <<local, clock, pc, target_md5, transferred, err,
                   startLocal, startListing, calls>>

FetchNext ==
    \/ \E p \in Procs : NeedToDownload(p)
    \/ \E p \in Procs : Download(p)
    \/ \E p \in Procs : Verify(p)
    \/ \E p \in Procs : Finish(p)
    \/ RemoteChange

FetchSpec == FetchInit /\ [][FetchNext]_vars

\* ------------------------------------------- properties of the fetcher
\* The digest the store reports for an object: its ETag without the
\* enclosing quotes.
RemoteDigest(etag) == SubSeq(etag, 2, Len(etag) - 1)

Ended(p) == pc[p] \in {"returned", "raised"}

\* The local path as the call found it is missing, or a regular file whose
\* md5 differs from the remote digest.
StaleAtStart(p) ==
    \/ startLocal[p].kind = "absent"
    \/ /\ startLocal[p].kind = "file"
       /\ Md5(startLocal[p].body) # RemoteDigest(startListing[p][1].ETag)

\* C1: a call of _get_aws_file that begins after a call has returned
\* normally, the remote store unchanged in between, invokes no
\* download_file, raises nothing, returns, and leaves the local file (its
\* contents and its modification time) as it found it.
C1_CacheHitIsSideEffectFree ==
    [][\A p \in Procs :
          hit'[p] =>
            /\ pc'[p] = "returned"
            /\ ~transferred'[p]
            /\ err'[p] = NoError
            /\ (pc[p] = "idle" => local' = local)]_vars

C1_Witness ==
    \E p \in Procs :
        /\ hit[p]
        /\ pc[p] = "returned"
        /\ calls >= 2
        /\ local.kind = "file"
        /\ local.mtime >= 1

\* C2: when the listing holds exactly one object, a finished call has
\* invoked download_file if and only if it found the local path missing or
\* a regular file whose md5 differs from the remote digest.
C2_TransferDecision ==
    \A p \in Procs :
        (Ended(p) /\ Len(startListing[p]) = 1) =>
            (transferred[p] <=> StaleAtStart(p))

C2_Witness ==
    \E p, q \in Procs :
        /\ Ended(p) /\ Len(startListing[p]) = 1 /\ transferred[p]
        /\ startLocal[p].kind = "file"
        /\ Ended(q) /\ Len(startListing[q]) = 1 /\ ~transferred[q]
        /\ startLocal[q].kind = "file"

\* C3: at the step a call returns, the local path is a regular file whose
\* md5 equals the remote digest the call obtained at its start; and a call
\* that finds another digest in the file after its transfer raises the
\* RuntimeError of the checksum.
C3_VerifiedPostcondition ==
    [][\A p \in Procs :
          /\ (pc[p] # "returned" /\ pc'[p] = "returned") =>
                /\ local'.kind = "file"
                /\ Md5(local'.body) = RemoteDigest(startListing'[p][1].ETag)
          /\ (/\ pc[p] = "verify" /\ pc'[p] # "verify"
              /\ Md5(local.body) # RemoteDigest(startListing[p][1].ETag)) =>
                /\ pc'[p] = "raised"
                /\ err'[p] = "RuntimeError:md5"]_vars

C3_Witness ==
    \E p, q \in Procs :
        /\ pc[p] = "returned" /\ transferred[p]
        /\ pc[q] = "raised" /\ err[q] = "RuntimeError:md5"

\* C4: a call whose listing holds no object, or more than one, ends with
\* an error raised to the caller, has invoked no download_file, and its
\* step leaves the local path as it was.
C4_AmbiguousKeyIsFatal ==
    [][\A p \in Procs :
          (pc'[p] # "idle" /\ Len(startListing'[p]) # 1) =>
            /\ pc'[p] = "raised"
            /\ err'[p] \in {"KeyError", "RuntimeError:listing"}
            /\ ~transferred'[p]
            /\ (pc[p] = "idle" => local' = local)]_vars

C4_Witness ==
    \E p, q \in Procs :
        /\ pc[p] = "raised" /\ Len(startListing[p]) = 2
        /\ startLocal[p].kind = "file"
        /\ pc[q] = "raised" /\ Len(startListing[q]) # 1
        /\ startLocal[q].kind = "absent"

FileNames == {"a.tif", "b.tif"}
Ids == 1 .. MaxId
ImageRecords ==
    [section_number : Ids, id : Ids, image_file_name : FileNames]

SectionId == 99

None == [none |-> TRUE]
NoWarning == [channel |-> "none"]

\* "%d" % n for an integer n >= 0: its decimal digits.
DigitChars == <<"0", "1", "2", "3", "4", "5", "6", "7", "8", "9">>

RECURSIVE FormatD(_)
FormatD(n) ==
    IF n < 10 THEN <<DigitChars[n + 1]>>
    ELSE FormatD(n \div 10) \o <<DigitChars[(n % 10) + 1]>>

\* A message "<head>%d<middle>%d" % (a, b), as its pieces in order.
Format2(head, a, middle, b) ==
    <<head>> \o FormatD(a) \o <<middle>> \o FormatD(b)

\* A Python dict as a function; d[k] = v
EmptyDict == <<>>
Put(d, k, v) == (k :> v) @@ d

\* list.sort() on a list of integers (insertion sort).
RECURSIVE InsertSorted(_, _)
InsertSorted(x, s) ==
    IF s = <<>> THEN <<x>>
    ELSE IF x <= Head(s) THEN <<x>> \o s
    ELSE <<Head(s)>> \o InsertSorted(x, Tail(s))

RECURSIVE Sorted(_)
Sorted(s) == IF s = <<>> THEN <<>> ELSE InsertSorted(Head(s), Sorted(Tail(s)))

\* SectionDataSet.__init__ of open_dataset_tools, lines 314-325: the loop
\* over the section images; each assert aborts the construction.
RECURSIVE IndexLoop(_, _, _)
IndexLoop(imgs, i, acc) ==
    IF i > Len(imgs) THEN acc
    ELSE LET img == imgs[i]
             tissue_index == img.section_number
             subimg_id == img.id
         IN IF tissue_index \in DOMAIN acc.tissue_index_to_section_img
            THEN [acc EXCEPT !.status = "failed"]
            ELSE IF subimg_id \in DOMAIN acc.subimg_to_tissue_index
            THEN [acc EXCEPT !.status = "failed"]
            ELSE IF tissue_index \in DOMAIN acc.tissue_index_to_subimg
            THEN [acc EXCEPT !.status = "failed"]
            ELSE IndexLoop(imgs, i + 1,
                   [acc EXCEPT
                      !.tissue_index_to_section_img =
                          Put(@, tissue_index, img),
                      !.subimg_to_tissue_index =
                          Put(@, subimg_id, tissue_index),
                      !.tissue_index_to_subimg =
                          Put(@, tissue_index, subimg_id),
                      !.tissue_keys = Append(@, tissue_index),
                      !.subimg_keys = Append(@, subimg_id)])

\* Faulty variant: the keys are left in insertion order.
SortedKeys_unsorted(keys) == keys

\* list(d.keys()) followed by .sort(), lines 327-330
SortedKeys(keys) == Sorted(keys)

\* SectionDataSet.__init__ of open_dataset_tools, lines 312-330
SectionDataSet(imgs) ==
    LET acc == IndexLoop(imgs, 1,
                 [status |-> "built",
                  tissue_index_to_section_img |-> EmptyDict,
                  subimg_to_tissue_index |-> EmptyDict,
                  tissue_index_to_subimg |-> EmptyDict,
                  tissue_keys |-> <<>>,
                  subimg_keys |-> <<>>])
    IN IF acc.status = "failed"
       THEN [status |-> "failed", raised |-> "AssertionError"]
       ELSE [status |-> "built",
             section_id |-> SectionId,
             tissue_index_to_section_img |-> acc.tissue_index_to_section_img,
             subimg_to_tissue_index |-> acc.subimg_to_tissue_index,
             tissue_index_to_subimg |-> acc.tissue_index_to_subimg,
             tissue_indices |-> SortedKeys(acc.tissue_keys),
             sub_image_ids |-> SortedKeys(acc.subimg_keys)]

\* copy.deepcopy of a record: an equal value.
deepcopy(img) == img

\* Faulty variant: no guard; an unknown index raises KeyError.
image_metadata_from_tissue_index_unguarded(self, tissue_index) ==
    IF tissue_index \notin DOMAIN self.tissue_index_to_section_img
    THEN [result |-> None, raised |-> "KeyError", warning |-> NoWarning]
    ELSE [result |-> deepcopy(self.tissue_index_to_section_img[tissue_index]),
          raised |-> "none", warning |-> NoWarning]

\* SectionDataSet.image_metadata_from_tissue_index, lines 348-361
image_metadata_from_tissue_index(self, tissue_index) ==
    IF tissue_index \notin DOMAIN self.tissue_index_to_section_img
    THEN [result |-> None, raised |-> "none",
          warning |-> [channel |-> "warnings.warn",
                       message |->
                         Format2("tissue_index ", tissue_index,
                                 " does not exist in section_data_set_", self.section_id)]]
    ELSE [result |-> deepcopy(self.tissue_index_to_section_img[tissue_index]),
          raised |-> "none", warning |-> NoWarning]

\* Faulty variant: the sub-image ID itself is used as the tissue index.
image_metadata_from_sub_image_direct(self, sub_image) ==
    IF sub_image \notin DOMAIN self.subimg_to_tissue_index
    THEN [result |-> None, raised |-> "none",
          warning |-> [channel |-> "warnings.warn",
                       message |->
                         Format2("sub_image ", sub_image,
                                 " does not exist in section_data_set_", self.section_id)]]
    ELSE image_metadata_from_tissue_index(self, sub_image)

\* SectionDataSet.image_metadata_from_sub_image, lines 363-378
image_metadata_from_sub_image(self, sub_image) ==
    IF sub_image \notin DOMAIN self.subimg_to_tissue_index
    THEN [result |-> None, raised |-> "none",
          warning |-> [channel |-> "warnings.warn",
                       message |->
                         Format2("sub_image ", sub_image,
                                 " does not exist in section_data_set_", self.section_id)]]
    ELSE image_metadata_from_tissue_index(
             self, self.subimg_to_tissue_index[sub_image])

\* ---- the legacy SectionDataSet of metadata_utils.py --------------------
\* __init__, lines 197-207: three dicts filled without any check.
RECURSIVE LegacyLoop(_, _, _)
LegacyLoop(imgs, i, acc) ==
    IF i > Len(imgs) THEN acc
    ELSE LET img == imgs[i]
             fname == img.image_file_name
         IN LegacyLoop(imgs, i + 1,
              [acc EXCEPT
                 !.section_images = Put(@, fname, img),
                 !.tissue_index_to_img = Put(@, img.section_number, fname),
                 !.subimg_to_img = Put(@, img.id, fname)])

LegacySectionDataSet(imgs) ==
    LegacyLoop(imgs, 1,
        [status |-> "built",
         section_id |-> SectionId,
         section_images |-> EmptyDict,
         tissue_index_to_img |-> EmptyDict,
         subimg_to_img |-> EmptyDict])

\* metadata_utils.py, image_metadata_from_tissue_index, lines 209-222
legacy_image_metadata_from_tissue_index(self, tissue_index) ==
    IF tissue_index \notin DOMAIN self.tissue_index_to_img
    THEN [result |-> None, raised |-> "none",
          warning |-> [channel |-> "print",
                       message |->
                         Format2("tissue_index ", tissue_index,
                                 " does not exist in section_data_set_", self.section_id)]]
    ELSE [result |-> deepcopy(
                       self.section_images[self.tissue_index_to_img[tissue_index]]),
          raised |-> "none", warning |-> NoWarning]

\* metadata_utils.py, image_metadata_from_sub_image, lines 224-238: fname is
\* bound to the dict subimg_to_img itself, and a dict is no dict key.
legacy_image_metadata_from_sub_image(self, sub_image) ==
    IF sub_image \notin DOMAIN self.subimg_to_img
    THEN [result |-> None, raised |-> "none",
          warning |-> [channel |-> "print",
                       message |->
                         Format2("sub_image ", sub_image,
                                 " does not exst in section_data_set_", self.section_id)]]
    ELSE [result |-> None, raised |-> "TypeError", warning |-> NoWarning]

\* ------------------------------------------------------------------ Init
FetchIdle ==
    /\ bucket = [i \in 1 .. Len(BucketKeys) |-> NoObj]
    /\ local = Absent
    /\ clock = 1
    /\ remoteChanges = 0
    /\ pc = [p \in Procs |-> "idle"]
    /\ target_md5 = [p \in Procs |-> NoDigest]
    /\ transferred = [p \in Procs |-> FALSE]
    /\ err = [p \in Procs |-> NoError]
    /\ startLocal = [p \in Procs |-> Absent]
    /\ startListing = [p \in Procs |-> <<>>]
    /\ hit = [p \in Procs |-> FALSE]
    /\ unchanged = [p \in Procs |-> FALSE]
    /\ calls = 0
    /\ current = FALSE

Batches == UNION {[1 .. n -> ImageRecords] : n \in 0 .. MaxImages}

IndexInit ==
    /\ FetchIdle
    /\ RestIdle
    /\ batch \in Batches
    /\ variant = "none"
    /\ ds = NoDataSet
    /\ lastCall = NoCall

\* --------------------------------------------------------------- actions
\* SectionDataSet(section_id, ...) of open_dataset_tools
Construct ==
    /\ ds.status = "none"
    /\ variant' = "open_dataset_tools"
    /\ ds' = SectionDataSet(batch)
    /\ UNCHANGED <<batch, lastCall>>
    /\ UNCHANGED <<fetchVars, restVars>>

\* SectionDataSet(section_id, ...) of metadata_utils
LegacyConstruct ==
    /\ ds.status = "none"
    /\ variant' = "metadata_utils"
    /\ ds' = LegacySectionDataSet(batch)
    /\ UNCHANGED <<batch, lastCall>>
    /\ UNCHANGED <<fetchVars, restVars>>

Called(op, arg, r) ==
    [op |-> op, arg |-> arg, result |-> r.result, raised |-> r.raised,
     warning |-> r.warning]

LookupArgs == (0 .. MaxId + 1) \cup {999}

LookupTissueIndex ==
    /\ ds.status = "built"
    /\ variant = "open_dataset_tools"
    /\ \E t \in LookupArgs :
         lastCall' = Called("image_metadata_from_tissue_index", t,
                            image_metadata_from_tissue_index(ds, t))
    /\ UNCHANGED <<batch, variant, ds>>
    /\ UNCHANGED <<fetchVars, restVars>>

LookupSubImage ==
    /\ ds.status = "built"
    /\ variant = "open_dataset_tools"
    /\ \E s \in LookupArgs :
         lastCall' = Called("image_metadata_from_sub_image", s,
                            image_metadata_from_sub_image(ds, s))
    /\ UNCHANGED <<batch, variant, ds>>
    /\ UNCHANGED <<fetchVars, restVars>>

LegacyLookupTissueIndex ==
    /\ ds.status = "built"
    /\ variant = "metadata_utils"
    /\ \E t \in LookupArgs :
         lastCall' = Called("image_metadata_from_tissue_index", t,
                            legacy_image_metadata_from_tissue_index(ds, t))
    /\ UNCHANGED <<batch, variant, ds>>
    /\ UNCHANGED <<fetchVars, restVars>>

LegacyLookupSubImage ==
    /\ ds.status = "built"
    /\ variant = "metadata_utils"
    /\ \E s \in LookupArgs :
         lastCall' = Called("image_metadata_from_sub_image", s,
                            legacy_image_metadata_from_sub_image(ds, s))
    /\ UNCHANGED <<batch, variant, ds>>
    /\ UNCHANGED <<fetchVars, restVars>>

IndexNext ==
    \/ Construct
    \/ LegacyConstruct
    \/ LookupTissueIndex
    \/ LookupSubImage
    \/ LegacyLookupTissueIndex
    \/ LegacyLookupSubImage

IndexSpec == IndexInit /\ [][IndexNext]_vars

\* --------------------------------------------- properties of the index
TissueSet(b) == {b[i].section_number : i \in DOMAIN b}
SubImageSet(b) == {b[i].id : i \in DOMAIN b}

HasDuplicate(b) ==
    \E i, j \in DOMAIN b :
        /\ i < j
        /\ \/ b[i].section_number = b[j].section_number
           \/ b[i].id = b[j].id

Range(q) == {q[i] : i \in DOMAIN q}
StrictlyAscending(q) == \A i, j \in DOMAIN q : i < j => q[i] < q[j]

IsCurrent == variant = "open_dataset_tools" /\ ds.status = "built"

\* C6: constructing a SectionDataSet, of either module, from a batch with
\* a repeated section_number or a repeated id fails and leaves no index.
C6_UniquenessEnforced ==
    (variant # "none" /\ HasDuplicate(batch)) => ds.status = "failed"

\* C6, for the SectionDataSet of open_dataset_tools alone.
C6_UniquenessEnforcedCurrent ==
    (variant = "open_dataset_tools" /\ HasDuplicate(batch)) =>
        (ds.status = "failed" /\ ds.raised = "AssertionError")

C6_WitnessCurrent ==
    /\ variant = "open_dataset_tools"
    /\ ds.status = "failed"
    /\ Len(batch) = 2
    /\ batch[1].section_number # batch[2].section_number
    /\ batch[1].id = batch[2].id

\* C7: a lookup of the SectionDataSet of open_dataset_tools by a tissue
\* index, or by a sub-image ID, that is not in the batch returns None,
\* raises nothing, and warns through warnings.warn with a message that
\* reads "tissue_index <the identifier> does not exist ..." (or "sub_image
\* <the identifier> does not exist ...").
C7_UnknownLookupsFailSoftly ==
    (IsCurrent /\ lastCall.op # "none") =>
        LET known == IF lastCall.op = "image_metadata_from_tissue_index"
                     THEN TissueSet(batch) ELSE SubImageSet(batch)
        IN lastCall.arg \notin known =>
             /\ lastCall.result = None
             /\ lastCall.raised = "none"
             /\ lastCall.warning.channel = "warnings.warn"
             /\ LET msg == lastCall.warning.message
                    shown == FormatD(lastCall.arg)
                IN /\ msg[1] = (IF lastCall.op = "image_metadata_from_tissue_index"
                                THEN "tissue_index " ELSE "sub_image ")
                   /\ SubSeq(msg, 2, 1 + Len(shown)) = shown
                   /\ msg[2 + Len(shown)] = " does not exist in section_data_set_"

C7_Witness ==
    /\ IsCurrent
    /\ Len(batch) = 2
    /\ lastCall.op = "image_metadata_from_sub_image"
    /\ lastCall.arg \notin SubImageSet(batch)
    /\ lastCall.arg \in TissueSet(batch)
    /\ lastCall.result = None

\* The tissue index of the record that carries sub-image ID s.
TissueIndexOf(s) ==
    CHOOSE t \in TissueSet(batch) :
        \E i \in DOMAIN batch : batch[i].id = s /\ batch[i].section_number = t

LookupByTissueIndex(t) ==
    IF variant = "open_dataset_tools"
    THEN image_metadata_from_tissue_index(ds, t)
    ELSE legacy_image_metadata_from_tissue_index(ds, t)

\* C8: in a SectionDataSet of either module, the lookup by a sub-image ID
\* present in the batch raises nothing and returns the record the lookup by
\* that sub-image's tissue index returns.
C8_LookupSymmetry ==
    (/\ ds.status = "built"
     /\ lastCall.op = "image_metadata_from_sub_image"
     /\ lastCall.arg \in SubImageSet(batch)) =>
        /\ lastCall.raised = "none"
        /\ lastCall.result = LookupByTissueIndex(TissueIndexOf(lastCall.arg)).result

\* C8, for the SectionDataSet of open_dataset_tools alone.
C8_LookupSymmetryCurrent ==
    (/\ IsCurrent
     /\ lastCall.op = "image_metadata_from_sub_image"
     /\ lastCall.arg \in SubImageSet(batch)) =>
        /\ lastCall.raised = "none"
        /\ lastCall.result = LookupByTissueIndex(TissueIndexOf(lastCall.arg)).result

\* C9: in the SectionDataSet of open_dataset_tools, a lookup by the
\* section_number of a record of the batch, and a lookup by its id, return
\* a record equal to it.
C9_LookupsReturnSourceRecord ==
    (IsCurrent /\ lastCall.op # "none") =>
        \A i \in DOMAIN batch :
            LET r == batch[i]
                key == IF lastCall.op = "image_metadata_from_tissue_index"
                       THEN r.section_number ELSE r.id
            IN lastCall.arg = key =>
                 (lastCall.raised = "none" /\ lastCall.result = r)

C9_Witness ==
    /\ IsCurrent
    /\ Len(batch) = 2
    /\ batch[1].image_file_name = batch[2].image_file_name
    /\ batch[1].section_number = batch[2].id
    /\ lastCall.op = "image_metadata_from_sub_image"
    /\ lastCall.arg = batch[1].id
    /\ lastCall.result = batch[1]

\* C10: in the SectionDataSet of open_dataset_tools built from n records,
\* tissue_indices is a strictly ascending list of exactly the n tissue
\* indices of the batch, and sub_image_ids one of exactly its n sub-image
\* IDs.
C10_SortedIdentifierLists ==
    IsCurrent =>
        /\ StrictlyAscending(ds.tissue_indices)
        /\ Range(ds.tissue_indices) = TissueSet(batch)
        /\ Len(ds.tissue_indices) = Len(batch)
        /\ StrictlyAscending(ds.sub_image_ids)
        /\ Range(ds.sub_image_ids) = SubImageSet(batch)
        /\ Len(ds.sub_image_ids) = Len(batch)

C10_Witness ==
    /\ IsCurrent
    /\ Len(batch) = 2
    /\ batch[1].section_number > batch[2].section_number
    /\ batch[1].id < batch[2].id
    /\ ds.tissue_indices = <<batch[2].section_number, batch[1].section_number>>

\* ==================================================== the image download
\* str(local_savepath)
SavePathName == "clobber.tiff"

\* 'downsample_%d' % downsample
downsample_key(downsample) == <<"downsample_">> \o FormatD(downsample)

\* 'section_data_set_%d/%s/%s' % (section_id, downsample_key, fname)
aws_key_of(section_id, key, fname) ==
    <<"section_data_set_">> \o FormatD(section_id) \o <<"/">> \o key
        \o <<"/", fname>>

\* One entry of img['downsampling']: the rectangle of the sub-image.
BoxA == [x |-> 1, y |-> 2, width |-> 3, height |-> 4]
BoxB == [x |-> 0, y |-> 1, width |-> 2, height |-> 2]

\* img['downsampling']: downsample key -> rectangle
TierMaps ==
    { (downsample_key(4) :> BoxA),
      (downsample_key(4) :> BoxB) @@ (downsample_key(5) :> BoxA) }

\* The section images a dataset with downsampling tiers is built from: one
\* record or two, the second on the same TIFF as the first or on another,
\* its sub-image ID the tissue index of the first.
TieredRecord(n, i, f, d) ==
    [section_number |-> n, id |-> i, image_file_name |-> f,
     downsampling |-> d]

ImageBatches ==
    {<<TieredRecord(1, 2, "a.tif", d)>> : d \in TierMaps}
    \cup {<<TieredRecord(1, 2, "a.tif", d[1]), TieredRecord(2, 1, f, d[2])>> :
            d \in TierMaps \X TierMaps, f \in FileNames}

\* Faulty variant: the right and lower edges are the width and the height.
crop_box_size(tier_metadata) ==
    <<tier_metadata.x, tier_metadata.y,
      tier_metadata.width, tier_metadata.height>>

\* _download_img, lines 445-449: (x0, y0, x1, y1)
crop_box(tier_metadata) ==
    <<tier_metadata.x, tier_metadata.y,
      tier_metadata.x + tier_metadata.width,
      tier_metadata.y + tier_metadata.height>>

\* The outcome of the part of a download call that runs before the remote
\* store is asked: it has ended (with a result, a warning, or an exception),
\* or it goes on to download aws_key and crop it with box.
Ended_with(result, warning, raised) ==
    [proceed |-> FALSE, result |-> result, warning |-> warning,
     raised |-> raised, aws_key |-> <<>>, box |-> <<>>]

Proceeds_with(key, box, warning) ==
    [proceed |-> TRUE, result |-> None, warning |-> warning,
     raised |-> "none", aws_key |-> key, box |-> box]

Warn(message) == [channel |-> "warnings.warn", message |-> message]
Printed(message) == [channel |-> "print", message |-> message]

\* Faulty variant: an existing file is overwritten whatever clobber is.
download_img_clobbers(self, path, tissue_index, downsample, clobber) ==
    IF path.kind = "dir"
    THEN Ended_with(FALSE,
             Warn(<<SavePathName, " already exists but is not a file">>),
             "none")
    ELSE LET r == image_metadata_from_tissue_index(self, tissue_index)
             key == downsample_key(downsample)
         IN IF r.result = None THEN Ended_with(None, r.warning, "TypeError")
            ELSE IF key \notin DOMAIN r.result.downsampling
            THEN Ended_with(FALSE,
                     Warn(FormatD(downsample)
                          \o <<" is not a valid downsampling tier for ",
                               r.result.image_file_name>>), "none")
            ELSE Proceeds_with(
                     aws_key_of(self.section_id, key,
                                r.result.image_file_name),
                     crop_box(r.result.downsampling[key]), NoWarning)

\* Faulty variant: a path that is no regular file is treated as a file.
download_img_nofilecheck(self, path, tissue_index, downsample, clobber) ==
    IF path.kind # "absent" /\ ~clobber
    THEN Ended_with(FALSE,
             Warn(<<SavePathName,
                    " already exists; re-run with clobber=True to overwrite">>),
             "none")
    ELSE LET r == image_metadata_from_tissue_index(self, tissue_index)
             key == downsample_key(downsample)
         IN IF r.result = None THEN Ended_with(None, r.warning, "TypeError")
            ELSE IF key \notin DOMAIN r.result.downsampling
            THEN Ended_with(FALSE,
                     Warn(FormatD(downsample)
                          \o <<" is not a valid downsampling tier for ",
                               r.result.image_file_name>>), "none")
            ELSE Proceeds_with(
                     aws_key_of(self.section_id, key,
                                r.result.image_file_name),
                     crop_box(r.result.downsampling[key]), NoWarning)

\* Faulty variant: the warning of the tier is given and the download goes on.
download_img_tierwarnonly(self, path, tissue_index, downsample, clobber) ==
    IF path.kind = "dir"
    THEN Ended_with(FALSE,
             Warn(<<SavePathName, " already exists but is not a file">>),
             "none")
    ELSE IF path.kind = "file" /\ ~clobber
    THEN Ended_with(FALSE,
             Warn(<<SavePathName,
                    " already exists; re-run with clobber=True to overwrite">>),
             "none")
    ELSE LET r == image_metadata_from_tissue_index(self, tissue_index)
             key == downsample_key(downsample)
         IN IF r.result = None THEN Ended_with(None, r.warning, "TypeError")
            ELSE IF key \notin DOMAIN r.result.downsampling
            THEN Proceeds_with(
                     aws_key_of(self.section_id, key,
                                r.result.image_file_name),
                     <<0, 0, 0, 0>>,
                     Warn(FormatD(downsample)
                          \o <<" is not a valid downsampling tier for ",
                               r.result.image_file_name>>))
            ELSE Proceeds_with(
                     aws_key_of(self.section_id, key,
                                r.result.image_file_name),
                     crop_box(r.result.downsampling[key]), NoWarning)

\* Faulty variant: an existing file is refused whatever clobber is.
download_img_neverclobbers(self, path, tissue_index, downsample, clobber) ==
    IF path.kind = "dir"
    THEN Ended_with(FALSE,
             Warn(<<SavePathName, " already exists but is not a file">>),
             "none")
    ELSE IF path.kind = "file"
    THEN Ended_with(FALSE,
             Warn(<<SavePathName,
                    " already exists; re-run with clobber=True to overwrite">>),
             "none")
    ELSE LET r == image_metadata_from_tissue_index(self, tissue_index)
             key == downsample_key(downsample)
         IN IF r.result = None THEN Ended_with(None, r.warning, "TypeError")
            ELSE IF key \notin DOMAIN r.result.downsampling
            THEN Ended_with(FALSE,
                     Warn(FormatD(downsample)
                          \o <<" is not a valid downsampling tier for ",
                               r.result.image_file_name>>), "none")
            ELSE Proceeds_with(
                     aws_key_of(self.section_id, key,
                                r.result.image_file_name),
                     crop_box(r.result.downsampling[key]), NoWarning)

\* Faulty variant: the tier is checked before the output path.
download_img_tierfirst(self, path, tissue_index, downsample, clobber) ==
    LET r == image_metadata_from_tissue_index(self, tissue_index)
        key == downsample_key(downsample)
    IN IF r.result = None THEN Ended_with(None, r.warning, "TypeError")
       ELSE IF key \notin DOMAIN r.result.downsampling
       THEN Ended_with(FALSE,
                Warn(FormatD(downsample)
                     \o <<" is not a valid downsampling tier for ",
                          r.result.image_file_name>>), "none")
       ELSE IF path.kind = "dir"
       THEN Ended_with(FALSE,
                Warn(<<SavePathName, " already exists but is not a file">>),
                "none")
       ELSE IF path.kind = "file" /\ ~clobber
       THEN Ended_with(FALSE,
                Warn(<<SavePathName,
                       " already exists; re-run with clobber=True to overwrite">>),
                "none")
       ELSE Proceeds_with(
                aws_key_of(self.section_id, key, r.result.image_file_name),
                crop_box(r.result.downsampling[key]), NoWarning)

\* SectionDataSet._download_img of open_dataset_tools, lines 405-426 and
\* 445-449: the checks of the output path and of the tier, the key of the
\* TIFF and the crop box.  (Lines 330-347 and 363-367 of aba_mouse_utils.py
\* are the same.)
download_img(self, path, tissue_index, downsample, clobber) ==
    IF path.kind = "dir"
    THEN Ended_with(FALSE,
             Warn(<<SavePathName, " already exists but is not a file">>),
             "none")
    ELSE IF path.kind = "file" /\ ~clobber
    THEN Ended_with(FALSE,
             Warn(<<SavePathName,
                    " already exists; re-run with clobber=True to overwrite">>),
             "none")
    ELSE LET r == image_metadata_from_tissue_index(self, tissue_index)
             key == downsample_key(downsample)
         IN IF r.result = None THEN Ended_with(None, r.warning, "TypeError")
            ELSE IF key \notin DOMAIN r.result.downsampling
            THEN Ended_with(FALSE,
                     Warn(FormatD(downsample)
                          \o <<" is not a valid downsampling tier for ",
                               r.result.image_file_name>>), "none")
            ELSE Proceeds_with(
                     aws_key_of(self.section_id, key,
                                r.result.image_file_name),
                     crop_box(r.result.downsampling[key]), NoWarning)

\* Faulty variant: no guard; the index is handed to _download_img as it is.
download_image_from_tissue_index_unguarded(self, path, tissue_index, downsample, clobber) ==
    download_img(self, path, tissue_index, downsample, clobber)

\* SectionDataSet.download_image_from_tissue_index, lines 486-493
download_image_from_tissue_index(self, path, tissue_index, downsample, clobber) ==
    IF tissue_index \notin DOMAIN self.tissue_index_to_section_img
    THEN Ended_with(FALSE,
             Warn(Format2("tissue_index ", tissue_index,
                          " does not exist in section_data_set_",
                          self.section_id)), "none")
    ELSE download_img(self, path, tissue_index, downsample, clobber)

\* SectionDataSet.download_image_from_sub_image, lines 523-531
download_image_from_sub_image(self, path, sub_image, downsample, clobber) ==
    IF sub_image \notin DOMAIN self.subimg_to_tissue_index
    THEN Ended_with(FALSE,
             Warn(Format2("sub_image ", sub_image,
                          " does not exist in section_data_set_",
                          self.section_id)), "none")
    ELSE download_image_from_tissue_index(
             self, path, self.subimg_to_tissue_index[sub_image],
             downsample, clobber)

\* ---- the image download of metadata_utils.py ---------------------------
\* dict.keys() of a section image, as strings
RecordKeys(record) == {<<k>> : k \in DOMAIN record}

\* metadata_utils.py, _download_img, lines 242-253: the message of the
\* existing file is printed without its argument; an unknown tier is
\* printed and the download goes on.
legacy_download_img(self, path, fname, downsample, clobber) ==
    IF path.kind = "dir"
    THEN Ended_with(FALSE,
             Printed(<<SavePathName, " already exists but is not a file">>),
             "none")
    ELSE IF path.kind = "file" /\ ~clobber
    THEN Ended_with(FALSE,
             Printed(<<"%s",
                       " already exists; re-run with clobber=True to overwrite">>),
             "none")
    ELSE LET key == downsample_key(downsample)
             key_of_tiff == aws_key_of(self.section_id, key, fname)
         IN IF key \notin RecordKeys(self.section_images[fname])
            THEN Proceeds_with(key_of_tiff, <<>>,
                     Printed(FormatD(downsample)
                             \o <<" is not a valid downsampling tier for ",
                                  fname>>))
            ELSE Proceeds_with(key_of_tiff, <<>>, NoWarning)

\* metadata_utils.py, download_image_from_tissue_index, lines 262-270
legacy_download_image_from_tissue_index(self, path, tissue_index, downsample, clobber) ==
    IF tissue_index \notin DOMAIN self.tissue_index_to_img
    THEN Ended_with(FALSE,
             Printed(Format2("tissue_index ", tissue_index,
                             " does not exist in section_data_set_",
                             self.section_id)), "none")
    ELSE legacy_download_img(self, path, self.tissue_index_to_img[tissue_index],
                             downsample, clobber)

\* metadata_utils.py, download_image_from_sub_image, lines 272-280: the
\* attribute sub_img_to_img does not exist.
legacy_download_image_from_sub_image(self, path, sub_image, downsample, clobber) ==
    IF sub_image \notin DOMAIN self.subimg_to_img
    THEN Ended_with(FALSE,
             Printed(Format2("sub_image ", sub_image,
                             " does not exst in section_data_set_",
                             self.section_id)), "none")
    ELSE Ended_with(None, NoWarning, "AttributeError")

\* ------------------------------------------------------------------ Init
ImageVariants == {"open_dataset_tools", "aba_mouse_utils", "metadata_utils"}

\* The pixels of the object stored under key, whole or cut short, cropped
\* to box (no box: the TIFF as it is stored).
Pixels(key, complete, box) ==
    [image |-> key, complete |-> complete, box |-> box]

OldBody == Pixels(<<"old">>, TRUE, <<>>)
PartialBody == Pixels(<<"partial">>, FALSE, <<>>)

SaveDirectory == [kind |-> "dir", body |-> NoBody]
SaveFile(body) == [kind |-> "file", body |-> body]

\* The dataset has been constructed from a batch the constructor accepts;
\* the output path is missing, a directory, or a file written earlier.
ImageInit ==
    /\ FetchIdle
    /\ LoaderIdle
    /\ KeysIdle
    /\ IvyIdle
    /\ CallerIdle
    /\ batch \in ImageBatches
    /\ variant \in ImageVariants
    /\ ds = IF variant = "metadata_utils"
            THEN LegacySectionDataSet(batch)
            ELSE SectionDataSet(batch)
    /\ lastCall = NoCall
    /\ savepath \in {NoSavePath, SaveDirectory, SaveFile(OldBody)}
    /\ scratch = FALSE
    /\ leaked = FALSE
    /\ dl = NoImageCall

\* --------------------------------------------------------------- actions
DownloadOps ==
    {"download_image_from_tissue_index", "download_image_from_sub_image"}
DownloadArgs == {1, 2, 999}
Downsamples == {0, 4, 5}

\* The call as it stands once the part before the remote request has run.
Began(op, arg, downsample, clobber, r, next) ==
    [pc |-> IF r.raised # "none" THEN "raised"
            ELSE IF r.proceed THEN next ELSE "returned",
     op |-> op, arg |-> arg, downsample |-> downsample, clobber |-> clobber,
     result |-> r.result, warning |-> r.warning, raised |-> r.raised,
     aws_key |-> r.aws_key, box |-> r.box,
     requests |-> <<>>, start |-> savepath, made_scratch |-> r.proceed,
     ondisk |-> NoBody]

\* download_image_from_tissue_index / download_image_from_sub_image of
\* open_dataset_tools (lines 486-493, 523-531) and of aba_mouse_utils.py,
\* up to the creation of the scratch file (lines 432-437; mkstemp, lines
\* 353-355).
DownloadImage ==
    /\ dl.pc = "idle"
    /\ variant \in {"open_dataset_tools", "aba_mouse_utils"}
    /\ \E op \in DownloadOps, arg \in DownloadArgs,
          downsample \in Downsamples, clobber \in BOOLEAN :
         LET r == IF op = "download_image_from_tissue_index"
                  THEN download_image_from_tissue_index(
                           ds, savepath, arg, downsample, clobber)
                  ELSE download_image_from_sub_image(
                           ds, savepath, arg, downsample, clobber)
         IN /\ dl' = Began(op, arg, downsample, clobber, r, "download")
            /\ scratch' = r.proceed
            /\ leaked' = (leaked \/ scratch)
    /\ UNCHANGED savepath
    /\ UNCHANGED <<fetchVars, indexVars, loaderVars, keysVars, ivyVars, callerVars>>

\* An exception leaves the with-block of NamedTemporaryFile, which removes
\* the scratch file (lines 432-437); in aba_mouse_utils.py the file made by
\* mkstemp is removed by the last statements only (lines 371-372).
ScratchAfterException == variant = "aba_mouse_utils"

\* lines 439-443: download_fileobj writes the object into the scratch file
\* object, which is not flushed: the file on disk holds the object or a
\* beginning of it.  download_file of aba_mouse_utils.py (lines 357-360)
\* writes the whole object.  Either raises when the object cannot be read.
DownloadToScratch ==
    /\ dl.pc = "download"
    /\ \/ /\ \E complete \in BOOLEAN :
                /\ (variant = "aba_mouse_utils" => complete)
                /\ dl' = [dl EXCEPT
                            !.pc = "crop",
                            !.requests = Append(@, dl.aws_key),
                            !.ondisk = Pixels(dl.aws_key, complete, <<>>)]
          /\ UNCHANGED scratch
       \/ /\ dl' = [dl EXCEPT !.pc = "raised", !.raised = "ClientError",
                              !.requests = Append(@, dl.aws_key)]
          /\ scratch' = ScratchAfterException
    /\ UNCHANGED <<savepath, leaked>>
    /\ UNCHANGED <<fetchVars, indexVars, loaderVars, keysVars, ivyVars, callerVars>>

\* lines 451-456: the scratch file is opened by its path and decoded, the
\* crop is taken and saved to local_savepath; the scratch file is removed.
\* Image.open and save can raise; a save that raises leaves local_savepath
\* as it was or with a part of the output.
CropAndSave ==
    /\ dl.pc = "crop"
    /\ \/ /\ savepath.kind # "dir"
          /\ savepath' = SaveFile(Pixels(dl.ondisk.image, dl.ondisk.complete,
                                         dl.box))
          /\ dl' = [dl EXCEPT !.pc = "returned", !.result = TRUE]
          /\ scratch' = FALSE
       \/ /\ dl' = [dl EXCEPT !.pc = "raised",
                              !.raised = "UnidentifiedImageError"]
          /\ scratch' = ScratchAfterException
          /\ UNCHANGED savepath
       \/ /\ dl' = [dl EXCEPT !.pc = "raised", !.raised = "OSError"]
          /\ scratch' = ScratchAfterException
          /\ \/ UNCHANGED savepath
             \/ savepath.kind # "dir" /\ savepath' = SaveFile(PartialBody)
    /\ UNCHANGED leaked
    /\ UNCHANGED <<fetchVars, indexVars, loaderVars, keysVars, ivyVars, callerVars>>

\* download_image_from_tissue_index / download_image_from_sub_image of
\* metadata_utils.py (lines 262-280), up to the key (line 253).
LegacyDownloadImage ==
    /\ dl.pc = "idle"
    /\ variant = "metadata_utils"
    /\ \E op \in DownloadOps, arg \in DownloadArgs,
          downsample \in Downsamples, clobber \in BOOLEAN :
         LET r == IF op = "download_image_from_tissue_index"
                  THEN legacy_download_image_from_tissue_index(
                           ds, savepath, arg, downsample, clobber)
                  ELSE legacy_download_image_from_sub_image(
                           ds, savepath, arg, downsample, clobber)
         IN dl' = [Began(op, arg, downsample, clobber, r, "download_file")
                     EXCEPT !.made_scratch = FALSE]
    /\ UNCHANGED <<savepath, scratch, leaked>>
    /\ UNCHANGED <<fetchVars, indexVars, loaderVars, keysVars, ivyVars, callerVars>>

\* metadata_utils.py, lines 255-260: download_file writes the object to
\* local_filename, or raises when there is no such object.
LegacyDownloadFile ==
    /\ dl.pc = "download_file"
    /\ \/ /\ savepath' = SaveFile(Pixels(dl.aws_key, TRUE, <<>>))
          /\ dl' = [dl EXCEPT !.pc = "returned", !.result = TRUE,
                              !.requests = Append(@, dl.aws_key)]
       \/ /\ dl' = [dl EXCEPT !.pc = "raised", !.raised = "ClientError",
                              !.requests = Append(@, dl.aws_key)]
          /\ UNCHANGED savepath
    /\ UNCHANGED <<scratch, leaked>>
    /\ UNCHANGED <<fetchVars, indexVars, loaderVars, keysVars, ivyVars, callerVars>>

\* The caller has the result and may call again.
ImageFinish ==
    /\ dl.pc \in {"returned", "raised"}
    /\ dl' = NoImageCall
    /\ UNCHANGED <<savepath, scratch, leaked>>
    /\ UNCHANGED <<fetchVars, indexVars, loaderVars, keysVars, ivyVars, callerVars>>

ImageNext ==
    \/ DownloadImage
    \/ DownloadToScratch
    \/ CropAndSave
    \/ LegacyDownloadImage
    \/ LegacyDownloadFile
    \/ ImageFinish

ImageSpec == ImageInit /\ [][ImageNext]_vars

\* ------------------------------------- properties of the image download
DownloadEnded == dl.pc \in {"returned", "raised"}

\* The identifier of the call is one of the batch.
KnownIdentifier ==
    IF dl.op = "download_image_from_tissue_index"
    THEN dl.arg \in TissueSet(batch)
    ELSE dl.arg \in SubImageSet(batch)

\* The record of the batch the identifier of the call names.
RequestedRecord ==
    CHOOSE r \in Range(batch) :
        IF dl.op = "download_image_from_tissue_index"
        THEN r.section_number = dl.arg
        ELSE r.id = dl.arg

\* "downsample_<tier>" for a tier of one digit
TierName(tier) == <<"downsample_", DigitChars[tier + 1]>>

TierPresent == TierName(dl.downsample) \in DOMAIN RequestedRecord.downsampling

\* section_data_set_99/downsample_<tier>/<image_file_name>
ExpectedKey ==
    <<"section_data_set_", "9", "9", "/">> \o TierName(dl.downsample)
        \o <<"/", RequestedRecord.image_file_name>>

ExpectedBox ==
    LET t == RequestedRecord.downsampling[TierName(dl.downsample)]
    IN <<t.x, t.y, t.x + t.width, t.y + t.height>>

ClobberWarning ==
    Warn(<<SavePathName,
           " already exists; re-run with clobber=True to overwrite">>)

NotAFileWarning ==
    Warn(<<SavePathName, " already exists but is not a file">>)

\* The remote store, the decoder or the encoder failed.
EnvironmentFailed ==
    dl.raised \in {"ClientError", "UnidentifiedImageError", "OSError"}

\* C11, as claimed: a download call of open_dataset_tools that finds the
\* output path a regular file, with clobber false, returns False, warns
\* with the output path and "re-run with clobber=True", and leaves the file
\* as it was -- whatever the identifier.
C11_NoClobberByDefault ==
    (/\ variant = "open_dataset_tools" /\ dl.pc # "idle"
     /\ dl.start.kind = "file" /\ ~dl.clobber) =>
        /\ dl.pc = "returned"
        /\ dl.result = FALSE
        /\ dl.warning = ClobberWarning
        /\ savepath = dl.start

\* C11, amended: the same for a call whose identifier is in the batch.
C11_NoClobberForKnownIdentifier ==
    (/\ variant = "open_dataset_tools" /\ dl.pc # "idle"
     /\ KnownIdentifier
     /\ dl.start.kind = "file" /\ ~dl.clobber) =>
        /\ dl.pc = "returned"
        /\ dl.result = FALSE
        /\ dl.raised = "none"
        /\ dl.warning = ClobberWarning
        /\ dl.requests = <<>>
        /\ savepath = dl.start

C11_Witness ==
    /\ variant = "open_dataset_tools"
    /\ dl.pc = "returned"
    /\ dl.op = "download_image_from_sub_image"
    /\ KnownIdentifier
    /\ TierPresent
    /\ ~dl.clobber
    /\ dl.start.kind = "file"
    /\ dl.start.body # OldBody
    /\ dl.result = FALSE
    /\ savepath = dl.start

\* C12: a download call of open_dataset_tools with an identifier of the
\* batch and a tier of its record, clobber true, that finds the output path
\* a regular file and is not failed by the remote store, the decoder or the
\* encoder, returns True, and the output file then holds the crop of the
\* requested image: the pixels of the object under the key of that record
\* and tier, cut to that tier's box.
C12_ClobberOverwrites ==
    (/\ variant = "open_dataset_tools" /\ DownloadEnded
     /\ KnownIdentifier /\ TierPresent
     /\ dl.start.kind = "file" /\ dl.clobber
     /\ ~EnvironmentFailed) =>
        /\ dl.pc = "returned"
        /\ dl.result = TRUE
        /\ savepath.kind = "file"
        /\ savepath.body.image = ExpectedKey
        /\ savepath.body.box = ExpectedBox

C12_Witness ==
    /\ variant = "open_dataset_tools"
    /\ dl.pc = "returned"
    /\ dl.clobber
    /\ dl.result = TRUE
    /\ dl.start.kind = "file"
    /\ dl.start.body # OldBody
    /\ savepath.body # dl.start.body
    /\ savepath.body.image = ExpectedKey

\* C13, as claimed: a download call of open_dataset_tools that finds the
\* output path existing but no regular file returns False and warns that
\* the path "already exists but is not a file", for either value of
\* clobber, and the directory stays -- whatever the identifier.
C13_NonFileOutputFailsSoftly ==
    (/\ variant = "open_dataset_tools" /\ dl.pc # "idle"
     /\ dl.start.kind = "dir") =>
        /\ dl.pc = "returned"
        /\ dl.result = FALSE
        /\ dl.warning = NotAFileWarning
        /\ savepath = dl.start

\* C13, amended: the same for a call whose identifier is in the batch.
C13_NonFileOutputForKnownIdentifier ==
    (/\ variant = "open_dataset_tools" /\ dl.pc # "idle"
     /\ KnownIdentifier
     /\ dl.start.kind = "dir") =>
        /\ dl.pc = "returned"
        /\ dl.result = FALSE
        /\ dl.raised = "none"
        /\ dl.warning = NotAFileWarning
        /\ dl.requests = <<>>
        /\ savepath = dl.start

C13_Witness ==
    /\ variant = "open_dataset_tools"
    /\ dl.pc = "returned"
    /\ KnownIdentifier
    /\ dl.clobber
    /\ dl.start.kind = "dir"
    /\ savepath.kind = "dir"
    /\ dl.result = FALSE

\* The output path was free for the call: missing, or a file with clobber.
PathFree ==
    \/ dl.start.kind = "absent"
    \/ dl.start.kind = "file" /\ dl.clobber

TierWarned ==
    /\ dl.warning.channel # "none"
    /\ dl.warning.message =
          <<DigitChars[dl.downsample + 1],
            " is not a valid downsampling tier for ",
            RequestedRecord.image_file_name>>

\* C14: in open_dataset_tools and in metadata_utils, a download call (here:
\* by tissue index) with an identifier of the batch and a tier absent from
\* its record, for an output path that is missing or a file with clobber
\* true, returns False with a warning naming the tier and leaves the output
\* path as it was.
C14_TierValidation ==
    (/\ variant \in {"open_dataset_tools", "metadata_utils"}
     /\ DownloadEnded
     /\ dl.op = "download_image_from_tissue_index"
     /\ KnownIdentifier /\ ~TierPresent /\ PathFree) =>
        /\ dl.pc = "returned"
        /\ dl.result = FALSE
        /\ TierWarned
        /\ savepath = dl.start

\* C14, for open_dataset_tools alone; at no step of the call is the remote
\* store asked or a scratch file made.
C14_TierValidationCurrent ==
    (/\ variant = "open_dataset_tools" /\ dl.pc # "idle"
     /\ KnownIdentifier /\ ~TierPresent /\ PathFree) =>
        /\ dl.pc = "returned"
        /\ dl.result = FALSE
        /\ dl.raised = "none"
        /\ TierWarned
        /\ dl.warning.channel = "warnings.warn"
        /\ dl.requests = <<>>
        /\ savepath = dl.start

C14_WitnessCurrent ==
    /\ variant = "open_dataset_tools"
    /\ dl.pc = "returned"
    /\ KnownIdentifier /\ ~TierPresent
    /\ dl.downsample = 5
    /\ dl.start.kind = "file" /\ dl.clobber
    /\ savepath = dl.start

UnknownIdentifierWarning ==
    Warn(<<IF dl.op = "download_image_from_tissue_index"
           THEN "tissue_index " ELSE "sub_image ">>
         \o (IF dl.arg = 999 THEN <<"9", "9", "9">>
             ELSE <<DigitChars[dl.arg + 1]>>)
         \o <<" does not exist in section_data_set_", "9", "9">>)

\* C15: a download call of open_dataset_tools with a tissue index, or a
\* sub-image ID, that is not in the batch returns False, warns with the
\* identifier, raises nothing, asks the remote store nothing, and leaves
\* the output path as it was (no output file is created).
C15_UnknownIdentifierOnDownload ==
    (/\ variant = "open_dataset_tools" /\ dl.pc # "idle"
     /\ ~KnownIdentifier) =>
        /\ dl.pc = "returned"
        /\ dl.result = FALSE
        /\ dl.raised = "none"
        /\ dl.warning = UnknownIdentifierWarning
        /\ dl.requests = <<>>
        /\ ~scratch
        /\ savepath = dl.start

C15_Witness ==
    /\ variant = "open_dataset_tools"
    /\ dl.pc = "returned"
    /\ dl.op = "download_image_from_sub_image"
    /\ ~KnownIdentifier
    /\ dl.arg \in TissueSet(batch)
    /\ dl.start.kind = "absent"
    /\ savepath.kind = "absent"
    /\ dl.result = FALSE

\* C16: a download call of open_dataset_tools with an identifier of the
\* batch, a tier of its record and a free output path asks the remote store
\* for the key section_data_set_<section_id>/downsample_<tier>/<file name
\* of the record> and for nothing else; unless the store, the decoder or
\* the encoder fails it returns True, and the output file then holds the
\* pixels of that object cut to (x, y, x+width, y+height) of that tier's
\* entry of that record.
C16_HappyPath ==
    (/\ variant = "open_dataset_tools" /\ dl.pc # "idle"
     /\ KnownIdentifier /\ TierPresent /\ PathFree) =>
        /\ dl.pc \in {"crop", "returned", "raised"} =>
               dl.requests = <<ExpectedKey>>
        /\ dl.pc = "download" => dl.requests = <<>>
        /\ (DownloadEnded /\ ~EnvironmentFailed) =>
               /\ dl.pc = "returned"
               /\ dl.result = TRUE
               /\ dl.warning = NoWarning
               /\ savepath = SaveFile(Pixels(ExpectedKey,
                                             savepath.body.complete,
                                             ExpectedBox))

C16_Witness ==
    /\ variant = "open_dataset_tools"
    /\ Len(batch) = 2
    /\ batch[1].image_file_name = batch[2].image_file_name
    /\ batch[1].downsampling # batch[2].downsampling
    /\ dl.pc = "returned"
    /\ dl.op = "download_image_from_sub_image"
    /\ dl.arg = batch[2].id
    /\ dl.downsample = 5
    /\ dl.start.kind = "absent"
    /\ dl.result = TRUE
    /\ savepath.body.box = <<1, 2, 4, 6>>

\* C17: in open_dataset_tools and in aba_mouse_utils.py, once a download
\* call that made a scratch file has ended, by returning or by an
\* exception, its scratch file does not exist.
C17_ScratchCleanup ==
    (/\ variant \in {"open_dataset_tools", "aba_mouse_utils"}
     /\ DownloadEnded /\ dl.made_scratch) => ~scratch

\* C17, for open_dataset_tools alone; nor is a scratch file of an earlier
\* call left behind.
C17_ScratchCleanupCurrent ==
    variant = "open_dataset_tools" =>
        /\ (DownloadEnded /\ dl.made_scratch) => ~scratch
        /\ dl.pc = "idle" => ~scratch
        /\ ~leaked

C17_WitnessCurrent ==
    /\ variant = "open_dataset_tools"
    /\ dl.pc = "raised"
    /\ dl.raised = "UnidentifiedImageError"
    /\ dl.made_scratch
    /\ ~scratch

\* The four conditions under which a download call gives up softly.
SoftFailure ==
    \/ ~KnownIdentifier
    \/ dl.start.kind = "dir"
    \/ dl.start.kind = "file" /\ ~dl.clobber
    \/ ~TierPresent

\* The warning of the first of the four conditions that holds.
WarningByPrecedence ==
    IF ~KnownIdentifier THEN UnknownIdentifierWarning
    ELSE IF dl.start.kind = "dir" THEN NotAFileWarning
    ELSE IF dl.start.kind = "file" /\ ~dl.clobber THEN ClobberWarning
    ELSE Warn(<<DigitChars[dl.downsample + 1],
                " is not a valid downsampling tier for ",
                RequestedRecord.image_file_name>>)

\* C27: a download call of open_dataset_tools that has returned False has
\* met one of the four conditions (unknown identifier, output path no
\* regular file, output file without clobber, tier absent), has asked the
\* remote store nothing, has made no scratch file, has left the output
\* path as it was, and its warning is that of the first of the conditions,
\* in this order, that holds; and a call that meets one of them returns
\* False at once.
C27_SoftFailuresTouchNothing ==
    variant = "open_dataset_tools" =>
        /\ (dl.pc = "returned" /\ dl.result = FALSE) =>
               /\ SoftFailure
               /\ dl.raised = "none"
               /\ dl.requests = <<>>
               /\ ~dl.made_scratch /\ ~scratch
               /\ savepath = dl.start
               /\ dl.warning = WarningByPrecedence
        /\ (dl.pc # "idle" /\ SoftFailure) =>
               (dl.pc = "returned" /\ dl.result = FALSE)

\* A sub-image of the batch, a directory as the output path, no clobber and
\* an absent tier: three conditions hold, the warning is that of the path.
C27_Witness ==
    /\ variant = "open_dataset_tools"
    /\ dl.pc = "returned" /\ dl.result = FALSE
    /\ dl.op = "download_image_from_sub_image"
    /\ KnownIdentifier
    /\ dl.start.kind = "dir"
    /\ ~dl.clobber
    /\ ~TierPresent
    /\ dl.warning = NotAFileWarning

\* ================================================== the metadata loaders
\* An S3 client: the one get_public_boto3_client() makes, or one of the
\* caller's.
get_public_boto3_client == [client |-> "anonymous"]
SuppliedClients == {[client |-> "supplied-1"], [client |-> "supplied-2"]}

\* What a loader does about its client: the client its requests go
\* through, the client it keeps, and how many anonymous clients it made.
Through(client, kept, created) ==
    [client |-> client, kept |-> kept, created |-> created]

\* download_s3_metadata_file, lines 169-179
download_s3_metadata_file(s3_client) ==
    IF s3_client = None
    THEN Through(get_public_boto3_client, None, 1)
    ELSE Through(s3_client, None, 0)

\* get_atlas_metadata, lines 216-221: s3_client is not handed on.
get_atlas_metadata(s3_client) == download_s3_metadata_file(None)

\* get_section_metadata, lines 255-263: s3_client is not handed on.
get_section_metadata(s3_client) == download_s3_metadata_file(None)

\* SectionDataSet.__init__, lines 299-308: the client is kept for the image
\* downloads; the metadata is fetched by get_section_metadata without it.
SectionDataSet_init(s3_client) ==
    LET kept == IF s3_client = None THEN get_public_boto3_client
                ELSE s3_client
        made == IF s3_client = None THEN 1 ELSE 0
        m == get_section_metadata(None)
    IN Through(m.client, kept, made + m.created)

\* ---- the text of a file, as a sequence of characters -------------------
Whitespace == {"\n", " "}

\* str.split(','): the pieces between the commas, as sequences of
\* characters; the empty string gives one empty piece.
RECURSIVE split(_, _)
split(s, piece) ==
    IF s = <<>> THEN <<piece>>
    ELSE IF Head(s) = "," THEN <<piece>> \o split(Tail(s), <<>>)
    ELSE split(Tail(s), Append(piece, Head(s)))

\* The metadata objects of the bucket: a list of dicts or a dict, written
\* with or without blanks; and an object that is no JSON.
JsonTexts ==
    { <<"[", "]">>,
      <<"[", "{", "}", "]">>,
      <<"[", "{", "}", ",", " ", "{", "}", "]", "\n">>,
      <<"{", "}", "\n">>,
      <<"[", "{">> }

\* What an out-of-date cached file holds: bytes that are no object of the
\* bucket.
StaleJson == <<"{", " ", "}">>

JSONDecodeError == [raised |-> "JSONDecodeError", value |-> None]

\* json.load, lines 181-182: the parsed value of the text -- a dict, or a
\* list of dicts -- whatever blanks the text holds.
json_load(text) ==
    LET t == SelectSeq(text, LAMBDA c : c \notin Whitespace)
    IN IF t = <<"{", "}">>
       THEN [raised |-> "none", value |-> [dict |-> <<>>]]
       ELSE IF Len(t) >= 2 /\ t[1] = "[" /\ t[Len(t)] = "]"
       THEN LET inner == SubSeq(t, 2, Len(t) - 1)
                items == IF inner = <<>> THEN <<>> ELSE split(inner, <<>>)
            IN IF \A i \in DOMAIN items : items[i] = <<"{", "}">>
               THEN [raised |-> "none",
                     value |-> [list |-> [i \in DOMAIN items |->
                                            [dict |-> <<>>]]]]
               ELSE JSONDecodeError
       ELSE JSONDecodeError

\* The bytes of the cached file.
CacheText(c, remote) ==
    IF c = "fresh" THEN remote ELSE IF c = "stale" THEN StaleJson ELSE <<>>

\* Faulty variant: the file is fetched whatever the cache holds.
must_download_always(c) == TRUE

\* _need_to_download, lines 75-86: the file is fetched when it is missing
\* or when its md5 is not the digest of the remote object.
must_download(c) == c # "fresh"

LoaderOps ==
    {"download_s3_metadata_file", "get_atlas_metadata",
     "get_section_metadata", "SectionDataSet"}

\* ------------------------------------------------------------------ Init
\* The cached file is missing, differs from the remote object, or equals it.
LoaderInit ==
    /\ FetchIdle
    /\ IndexIdle
    /\ ImageIdle
    /\ KeysIdle
    /\ IvyIdle
    /\ CallerIdle
    /\ cache \in {"absent", "stale", "fresh"}
    /\ load = NoLoad
    /\ remoteJson \in JsonTexts
    /\ previous = NoPrevious

\* --------------------------------------------------------------- actions
\* A loader is called; it settles the client (lines 163-172).
LoadMetadata ==
    /\ load.pc = "idle"
    /\ \E op \in LoaderOps, s3_client \in {None} \cup SuppliedClients :
         LET r == CASE op = "download_s3_metadata_file" ->
                           download_s3_metadata_file(s3_client)
                    [] op = "get_atlas_metadata" ->
                           get_atlas_metadata(s3_client)
                    [] op = "get_section_metadata" ->
                           get_section_metadata(s3_client)
                    [] op = "SectionDataSet" ->
                           SectionDataSet_init(s3_client)
         IN load' = [pc |-> "list", op |-> op, s3_client |-> s3_client,
                     client |-> r.client, kept |-> r.kept,
                     created |-> r.created, requests |-> <<>>,
                     raised |-> "none", metadata |-> None]
    /\ UNCHANGED <<cache, remoteJson, previous>>
    /\ UNCHANGED <<fetchVars, indexVars, imageVars, keysVars, ivyVars, callerVars>>

\* _get_aws_file, lines 110-112: list_objects through the client; the
\* listing can fail, the cached file is current, or it must be fetched.
ListThroughClient ==
    /\ load.pc = "list"
    /\ \E next \in {"raised"} \cup
                   (IF must_download(cache) THEN {"transfer"}
                    ELSE {"loaded"}) :
         load' = [load EXCEPT
                    !.pc = next,
                    !.raised = IF next = "raised" THEN "ClientError"
                               ELSE "none",
                    !.requests = Append(@, [request |-> "list_objects",
                                            client |-> load.client])]
    /\ UNCHANGED <<cache, remoteJson, previous>>
    /\ UNCHANGED <<fetchVars, indexVars, imageVars, keysVars, ivyVars, callerVars>>

\* _get_aws_file, lines 114-127: download_file through the same client.
TransferThroughClient ==
    /\ load.pc = "transfer"
    /\ load' = [load EXCEPT
                  !.pc = "loaded",
                  !.requests = Append(@, [request |-> "download_file",
                                          client |-> load.client])]
    /\ cache' = "fresh"
    /\ UNCHANGED <<remoteJson, previous>>
    /\ UNCHANGED <<fetchVars, indexVars, imageVars, keysVars, ivyVars, callerVars>>

\* download_s3_metadata_file, lines 181-184: the file _get_aws_file left is
\* opened and parsed; the parsed value is returned.
JsonLoad ==
    /\ load.pc = "loaded"
    /\ LET r == json_load(CacheText(cache, remoteJson))
       IN load' = [load EXCEPT
                     !.pc = IF r.raised = "none" THEN "parsed" ELSE "raised",
                     !.raised = r.raised,
                     !.metadata = r.value]
    /\ UNCHANGED <<cache, remoteJson, previous>>
    /\ UNCHANGED <<fetchVars, indexVars, imageVars, keysVars, ivyVars, callerVars>>

\* The caller has the metadata (or the exception) and may call again.
LoadFinish ==
    /\ load.pc \in {"parsed", "raised"}
    /\ load' = NoLoad
    /\ previous' = [op |-> load.op, pc |-> load.pc,
                    metadata |-> load.metadata]
    /\ UNCHANGED <<cache, remoteJson>>
    /\ UNCHANGED <<fetchVars, indexVars, imageVars, keysVars, ivyVars, callerVars>>

LoaderNext ==
    \/ LoadMetadata
    \/ ListThroughClient
    \/ TransferThroughClient
    \/ JsonLoad
    \/ LoadFinish

LoaderSpec == LoaderInit /\ [][LoaderNext]_vars

\* ---------------------------------------------- properties of the loaders
\* C18: a loader (download_s3_metadata_file, get_atlas_metadata,
\* get_section_metadata, the SectionDataSet constructor) that is given a
\* client makes every remote request through that client and creates no
\* anonymous client.
C18_SuppliedClientIsUsed ==
    (load.pc # "idle" /\ load.s3_client # None) =>
        /\ \A i \in DOMAIN load.requests :
               load.requests[i].client = load.s3_client
        /\ load.created = 0

\* C18, for download_s3_metadata_file called directly, and for what the
\* SectionDataSet constructor keeps as self.s3_client.
C18_DirectLoaderUsesClient ==
    /\ (/\ load.pc # "idle" /\ load.s3_client # None
        /\ load.op = "download_s3_metadata_file") =>
           /\ \A i \in DOMAIN load.requests :
                  load.requests[i].client = load.s3_client
           /\ load.created = 0
    /\ (/\ load.pc # "idle" /\ load.s3_client # None
        /\ load.op = "SectionDataSet") => load.kept = load.s3_client

C18_WitnessDirect ==
    /\ load.pc = "loaded"
    /\ load.op = "download_s3_metadata_file"
    /\ load.s3_client \in SuppliedClients
    /\ Len(load.requests) = 2

\* ========================================================== get_aws_keys
MaxCols == 3

\* The text of the credentials file is a sequence of characters; a column
\* name or a value counts as one character, "," and "\n" as themselves.
AccessKeyId == "Access key ID"
SecretAccessKey == "Secret access key"
HeaderNames == {AccessKeyId, SecretAccessKey, "a", "b"}
Values == {"meringue", "blueberry", "apple"}

\* One line of the file as it is written: the cells (each a sequence of
\* characters), with "," between them, and the end of the line.
RECURSIVE Join(_)
Join(cells) ==
    IF Len(cells) = 0 THEN <<>>
    ELSE IF Len(cells) = 1 THEN cells[1]
    ELSE cells[1] \o <<",">> \o Join(Tail(cells))

WriteLine(cells) == Join(cells) \o <<"\n">>

\* str.strip()
RECURSIVE lstrip(_)
lstrip(s) ==
    IF s # <<>> /\ Head(s) \in Whitespace THEN lstrip(Tail(s)) ELSE s

RECURSIVE rstrip(_)
rstrip(s) ==
    IF s # <<>> /\ s[Len(s)] \in Whitespace
    THEN rstrip(SubSeq(s, 1, Len(s) - 1)) ELSE s

strip(s) == rstrip(lstrip(s))

\* in_file.readline(): the next line, or '' at the end of the file
readline(lines, n) == IF n <= Len(lines) THEN lines[n] ELSE <<>>

\* lines 28-34: the loop over the header; 0 stands for None, and a column
\* is counted from 1.
RECURSIVE ScanHeader(_, _, _)
ScanHeader(header, ii, dex) ==
    IF ii > Len(header) THEN dex
    ELSE ScanHeader(header, ii + 1,
             [id_dex |-> IF header[ii] = <<AccessKeyId>>
                         THEN ii ELSE dex.id_dex,
              key_dex |-> IF header[ii] = <<SecretAccessKey>>
                          THEN ii ELSE dex.key_dex])

\* Faulty variant: the headers are missed only when both are missing.
headers_missing_both(dex) == dex.id_dex = 0 /\ dex.key_dex = 0

\* line 35
headers_missing(dex) == dex.id_dex = 0 \/ dex.key_dex = 0

\* Faulty variant: the two keys are taken from the first two columns.
read_keys_positional(p, dex) ==
    IF Len(p) < 2
    THEN [raised |-> "IndexError", message |-> <<>>, result |-> None]
    ELSE [raised |-> "none", message |-> <<>>, result |-> <<p[1], p[2]>>]

\* lines 45-49: the values of the second line in the two columns found
read_keys(p, dex) ==
    IF dex.id_dex = 0 \/ dex.key_dex = 0
    THEN [raised |-> "TypeError", message |-> <<>>, result |-> None]
    ELSE IF dex.id_dex > Len(p) \/ dex.key_dex > Len(p)
    THEN [raised |-> "IndexError", message |-> <<>>, result |-> None]
    ELSE [raised |-> "none", message |-> <<>>,
          result |-> <<p[dex.id_dex], p[dex.key_dex]>>]

\* get_aws_keys, lines 20-49
get_aws_keys(file) ==
    IF file.filename = "None"
    THEN [raised |-> "RuntimeError",
          message |-> <<"Must specify filename in get_aws_keys">>,
          result |-> None]
    ELSE IF file.kind # "file"
    THEN [raised |-> "RuntimeError",
          message |-> <<"\n", file.filename, "\nis not a file">>,
          result |-> None]
    ELSE LET header == split(strip(readline(file.lines, 1)), <<>>)
             dex == ScanHeader(header, 1, [id_dex |-> 0, key_dex |-> 0])
         IN IF headers_missing(dex)
            THEN [raised |-> "RuntimeError",
                  message |->
                      <<"\n">>
                      \o (IF dex.id_dex = 0
                          THEN <<"Could not find 'Access key ID'\n">>
                          ELSE <<>>)
                      \o (IF dex.key_dex = 0
                          THEN <<"Could not find 'Secret access key'\n">>
                          ELSE <<>>)
                      \o <<"in '", file.filename, "'\n">>,
                  result |-> None]
            ELSE read_keys(split(strip(readline(file.lines, 2)), <<>>), dex)

\* ------------------------------------------------------------------ Init
CredentialsName == "accessKeys.csv"

HeaderCells == {<<n>> : n \in HeaderNames}
ValueCells == {<<v>> : v \in Values}

HeaderRows == UNION {[1 .. n -> HeaderCells] : n \in 1 .. MaxCols}
ValueRows == UNION {[1 .. n -> ValueCells] : n \in 1 .. MaxCols}

\* A credentials file: its header row and, if it has one, its row of
\* values, and the text that stands in the file.
CredentialsFile(header, rows) ==
    [filename |-> CredentialsName, kind |-> "file", header |-> header,
     rows |-> rows,
     lines |-> <<WriteLine(header)>>
               \o [i \in 1 .. Len(rows) |-> WriteLine(rows[i])]]

NotAFile(kind) ==
    [filename |-> CredentialsName, kind |-> kind, header |-> <<>>,
     rows |-> <<>>, lines |-> <<>>]

\* get_aws_keys is about to be called with no filename, with the name of
\* nothing or of a directory, or with the name of a file of one or two
\* lines.
KeysInit ==
    /\ FetchIdle
    /\ IndexIdle
    /\ ImageIdle
    /\ LoaderIdle
    /\ IvyIdle
    /\ CallerIdle
    /\ credentials \in
          {NoCredentials, NotAFile("missing"), NotAFile("dir")}
          \cup {CredentialsFile(h, <<>>) : h \in HeaderRows}
          \cup {CredentialsFile(h, <<v>>) : h \in HeaderRows, v \in ValueRows}
    /\ keyCall = NoKeysCall

\* --------------------------------------------------------------- actions
GetAwsKeys ==
    /\ keyCall.pc = "idle"
    /\ LET r == get_aws_keys(credentials)
       IN keyCall' = [pc |-> "done", raised |-> r.raised,
                      message |-> r.message, result |-> r.result]
    /\ UNCHANGED credentials
    /\ UNCHANGED <<fetchVars, indexVars, imageVars, loaderVars, ivyVars, callerVars>>

\* The caller has the keys (or the exception) and may call again.
KeysFinish ==
    /\ keyCall.pc = "done"
    /\ keyCall' = NoKeysCall
    /\ UNCHANGED credentials
    /\ UNCHANGED <<fetchVars, indexVars, imageVars, loaderVars, ivyVars, callerVars>>

KeysNext ==
    \/ GetAwsKeys
    \/ KeysFinish

KeysSpec == KeysInit /\ [][KeysNext]_vars

\* ------------------------------------------- properties of get_aws_keys
IsFile == credentials.filename # "None" /\ credentials.kind = "file"

\* The columns of the header row that carry the name.
Columns(name) ==
    {i \in DOMAIN credentials.header : credentials.header[i] = <<name>>}

Contains(message, piece) == \E i \in DOMAIN message : message[i] = piece

\* C19: get_aws_keys raises RuntimeError, and returns no keys, when filename
\* is None, when it names no regular file, and when the header row has no
\* column 'Access key ID' or no column 'Secret access key'; in that last
\* case the message names the file and every header that is missing, and
\* no header that is there.
C19_CredentialFileErrors ==
    keyCall.pc = "done" =>
        /\ (~IsFile \/ Columns(AccessKeyId) = {}
                    \/ Columns(SecretAccessKey) = {}) =>
               /\ keyCall.raised = "RuntimeError"
               /\ keyCall.result = None
        /\ credentials.filename = "None" =>
               keyCall.message = <<"Must specify filename in get_aws_keys">>
        /\ (credentials.filename # "None" /\ ~IsFile) =>
               keyCall.message = <<"\n", CredentialsName, "\nis not a file">>
        /\ (IsFile /\ keyCall.raised = "RuntimeError") =>
               /\ Contains(keyCall.message, CredentialsName)
               /\ Contains(keyCall.message, "Could not find 'Access key ID'\n")
                      <=> Columns(AccessKeyId) = {}
               /\ Contains(keyCall.message,
                           "Could not find 'Secret access key'\n")
                      <=> Columns(SecretAccessKey) = {}

C19_Witness ==
    /\ keyCall.pc = "done"
    /\ IsFile
    /\ Len(credentials.header) = 3
    /\ Columns(AccessKeyId) = {}
    /\ Columns(SecretAccessKey) = {2}
    /\ Len(credentials.rows) = 1
    /\ keyCall.raised = "RuntimeError"
    /\ ~Contains(keyCall.message, "Could not find 'Secret access key'\n")

\* The second line of the file as a row of values; no second line, no values.
SecondRow ==
    IF Len(credentials.rows) >= 1 THEN credentials.rows[1] ELSE <<>>

\* C20, as claimed: for every file whose header row has a column 'Access
\* key ID' and a column 'Secret access key', wherever they stand,
\* get_aws_keys raises nothing and returns the pair (value under 'Access
\* key ID', value under 'Secret access key') of the second line, in that
\* order.
C20_KeysLocatedByHeaderName ==
    (/\ keyCall.pc = "done" /\ IsFile
     /\ Columns(AccessKeyId) # {} /\ Columns(SecretAccessKey) # {}) =>
        /\ keyCall.raised = "none"
        /\ \E i \in Columns(AccessKeyId), j \in Columns(SecretAccessKey) :
               /\ i <= Len(SecondRow) /\ j <= Len(SecondRow)
               /\ keyCall.result = <<SecondRow[i], SecondRow[j]>>

\* C20, amended: the same for a file whose second line has a value in each
\* column named 'Access key ID' or 'Secret access key'.
C20_KeysLocatedWhenValuesPresent ==
    (/\ keyCall.pc = "done" /\ IsFile
     /\ Columns(AccessKeyId) # {} /\ Columns(SecretAccessKey) # {}
     /\ \A i \in Columns(AccessKeyId) \cup Columns(SecretAccessKey) :
            i <= Len(SecondRow)) =>
        /\ keyCall.raised = "none"
        /\ \E i \in Columns(AccessKeyId), j \in Columns(SecretAccessKey) :
               keyCall.result = <<SecondRow[i], SecondRow[j]>>

C20_Witness ==
    /\ keyCall.pc = "done"
    /\ IsFile
    /\ credentials.header = <<<<"a">>, <<SecretAccessKey>>, <<AccessKeyId>>>>
    /\ credentials.rows = <<<<<<"apple">>, <<"blueberry">>, <<"meringue">>>>>>
    /\ keyCall.result = <<<<"meringue">>, <<"blueberry">>>>

\* ============================================ more properties of the loaders
Transfers(requests) ==
    {i \in DOMAIN requests : requests[i].request = "download_file"}

\* C21: with the remote object unchanged, when a call of a metadata loader
\* (download_s3_metadata_file, get_atlas_metadata, get_section_metadata)
\* has returned and the next call of the same loader, for the same key and
\* cache file, returns too, the second returns a parsed value equal to the
\* first's and has invoked no download_file.
C21_MetadataLoadRepeatable ==
    (/\ load.pc = "parsed"
     /\ previous.op = load.op
     /\ previous.pc = "parsed") =>
        /\ load.metadata = previous.metadata
        /\ Transfers(load.requests) = {}

C21_Witness ==
    /\ load.pc = "parsed"
    /\ load.op = "get_atlas_metadata"
    /\ previous.op = "get_atlas_metadata"
    /\ previous.pc = "parsed"
    /\ Len(remoteJson) = 9
    /\ load.metadata = [list |-> <<[dict |-> <<>>], [dict |-> <<>>]>>]
    /\ load.metadata = previous.metadata

\* ========================================================= ivy_gap_utils
\* "s3://allen-ivy-glioblastoma-atlas/", character by character
BucketUrl ==
    <<"s", "3", ":", "/", "/", "a", "l", "l", "e", "n", "-", "i", "v", "y",
      "-", "g", "l", "i", "o", "b", "l", "a", "s", "t", "o", "m", "a", "-",
      "a", "t", "l", "a", "s", "/">>

\* The keys of the image objects of the bucket, character by character.
KeyDigits == <<"2", "/", "x">>
KeySub == <<"s", "u", "b", "/", "x">>
KeyTiles == <<"t", "i", "l", "e", "s", "/", "x">>
IvyKeys == <<KeyDigits, KeySub, KeyTiles>>

\* The s3_data URLs of the sub-images of the section, in their order.
ImageUrls == [i \in DOMAIN IvyKeys |-> BucketUrl \o IvyKeys[i]]

\* str.lstrip(chars): the leading characters that occur in chars are
\* removed, whatever their order.
RECURSIVE lstrip_chars(_, _)
lstrip_chars(s, chars) ==
    IF s # <<>> /\ Head(s) \in Range(chars)
    THEN lstrip_chars(Tail(s), chars) ELSE s

\* Faulty variant: the URL is used as it is.
rel_path_of_whole(url) == url

\* ImagePromise.load, line 114, and section_image_downloader, line 312
rel_path_of(url) == lstrip_chars(url, BucketUrl)

\* A directory of the local disk, and what stands in it: the section
\* metadata file and the images, each under its path relative to it.
IvySaveDir == [path |-> "ivy_gap_data"]
IvyDir(metadata, images) ==
    [exists |-> TRUE, metadata |-> metadata, images |-> images]
ImageFile(path, key) == [path |-> path, image |-> key]
EmptyFile(path) == [path |-> path, image |-> <<>>]

\* The directory after the bucket was copied into it key by key.
SyncedImages == {ImageFile(IvyKeys[i], IvyKeys[i]) : i \in DOMAIN IvyKeys}

\* ImagePromise.__init__, lines 85-106
ImagePromise_init(s3_obj_url, local_save_directory, s3_client) ==
    LET warning ==
          IF local_save_directory # None /\ s3_client # None
          THEN Warn(<<"Both an s3_client as well as local_save_directory ",
                      "parameter were provided, the s3_client parameter ",
                      "will be ignored!">>)
          ELSE NoWarning
    IN IF local_save_directory = None /\ s3_client = None
       THEN [raised |-> "RuntimeError", warning |-> warning, self |-> None]
       ELSE [raised |-> "none", warning |-> warning,
             self |-> [s3_obj_url |-> s3_obj_url,
                       s3_client |-> s3_client,
                       local_save_dir |-> local_save_directory]]

\* Faulty variant: the client is used whenever there is one.
load_source_client_first(self) ==
    IF self.s3_client # None THEN "s3" ELSE "local"

\* ImagePromise.load, lines 116-128: where the image is taken from
load_source(self) ==
    IF self.local_save_dir # None THEN "local" ELSE "s3"

\* The file of the directory that stands under the path, if any.
FilesAt(dir, path) ==
    IF dir.exists THEN {f \in dir.images : f.path = path} ELSE {}

\* A request to the remote store.
Request(request, key, client) ==
    [request |-> request, key |-> key, client |-> client]

\* The call of ivy_gap_utils as it stands.
IvyCall(at, op, promise, warning, raised, requests, result, todo) ==
    [pc |-> at, op |-> op, promise |-> promise, warning |-> warning,
     raised |-> raised, requests |-> requests, result |-> result,
     todo |-> todo, saved |-> <<>>]

\* ------------------------------------------------------------------ Init
\* local_save_directory is missing, empty, holds the section metadata of an
\* earlier run, or holds a copy of the bucket.
IvyInit ==
    /\ FetchIdle
    /\ IndexIdle
    /\ ImageIdle
    /\ LoaderIdle
    /\ KeysIdle
    /\ CallerIdle
    /\ ivyDir \in {NoIvyDir, IvyDir("absent", {}), IvyDir("file", {}),
                   IvyDir("file", SyncedImages)}
    /\ ivy = NoIvyCall
    /\ ivyLog = NoIvyLog

\* --------------------------------------------------------------- actions
\* ImagePromise(s3_obj_url, width, height, local_save_directory, s3_client)
NewImagePromise ==
    /\ ivy.pc = "idle"
    /\ \E i \in DOMAIN ImageUrls, dir \in {None, IvySaveDir},
          client \in {None, get_public_boto3_client} :
         LET r == ImagePromise_init(ImageUrls[i], dir, client)
         IN ivy' = IvyCall(IF r.raised = "none" THEN "promised"
                           ELSE "raised",
                           "ImagePromise", r.self, r.warning, r.raised,
                           <<>>, None, <<>>)
    /\ UNCHANGED <<ivyDir, ivyLog>>
    /\ UNCHANGED <<fetchVars, indexVars, imageVars, loaderVars, keysVars, callerVars>>

\* ImagePromise.load, lines 112-134: the image is opened from the file under
\* rel_path in the directory, or downloaded from the object under rel_path;
\* a missing file, an empty file and a missing object raise.
PromiseLoad ==
    /\ ivy.pc = "promised"
    /\ LET self == ivy.promise
           rel_path == rel_path_of(self.s3_obj_url)
       IN IF load_source(self) = "local"
          THEN LET found == FilesAt(ivyDir, rel_path)
               IN IF found = {}
                  THEN ivy' = [ivy EXCEPT !.pc = "raised",
                                          !.op = "ImagePromise.load",
                                          !.raised = "FileNotFoundError"]
                  ELSE \E f \in found :
                         IF f.image = <<>>
                         THEN ivy' = [ivy EXCEPT
                                        !.pc = "raised",
                                        !.op = "ImagePromise.load",
                                        !.raised = "UnidentifiedImageError"]
                         ELSE ivy' = [ivy EXCEPT
                                        !.pc = "returned",
                                        !.op = "ImagePromise.load",
                                        !.result = [source |-> "local",
                                                    path |-> rel_path,
                                                    image |-> f.image]]
          ELSE LET sent == Append(ivy.requests,
                                  Request("download_fileobj", rel_path,
                                          self.s3_client))
               IN \/ /\ rel_path \in Range(IvyKeys)
                     /\ ivy' = [ivy EXCEPT
                                  !.pc = "returned",
                                  !.op = "ImagePromise.load",
                                  !.requests = sent,
                                  !.result = [source |-> "s3",
                                              path |-> rel_path,
                                              image |-> rel_path]]
                  \/ ivy' = [ivy EXCEPT !.pc = "raised",
                                        !.op = "ImagePromise.load",
                                        !.requests = sent,
                                        !.raised = "ClientError"]
    /\ UNCHANGED <<ivyDir, ivyLog>>
    /\ UNCHANGED <<fetchVars, indexVars, imageVars, loaderVars, keysVars, callerVars>>

\* ---- local_section_metadata_loader and section_image_downloader --------
MaxDownloads == 2

IvyLoaderOps == {"local_section_metadata_loader", "section_image_downloader"}

\* The section_data_set_id of the section of the table, and one of no
\* section.
IvySectionId == 1
IvySectionIds == {IvySectionId, 0}

MetadataKey == <<"section_metadata.json">>

\* Faulty variant: the file is downloaded whether it is there or not.
cache_missing_always(dir) == TRUE

\* local_section_metadata_loader, lines 246-247
cache_missing(dir) == dir.metadata = "absent"

\* What the call does once it holds the section metadata: the loader
\* returns the table; the downloader looks the section up (lines 298-307)
\* and turns to its images.
WithMetadata(call) ==
    IF call.op = "local_section_metadata_loader"
    THEN [call EXCEPT !.pc = "returned",
                      !.result = [table |-> "section_metadata"]]
    ELSE IF call.section = IvySectionId
    THEN [call EXCEPT !.pc = "images", !.todo = ImageUrls]
    ELSE [call EXCEPT !.pc = "raised", !.raised = "RuntimeError"]

\* local_section_metadata_loader, lines 241-247 and 261-269 (called by
\* section_image_downloader at lines 292-296): the directory is made if it
\* is missing; a file that is there is read, and a file cut short is no
\* JSON.
LoadSectionMetadata ==
    /\ ivy.pc = "idle"
    /\ \E op \in IvyLoaderOps, id \in IvySectionIds :
         LET dir == IF ivyDir.exists THEN ivyDir ELSE IvyDir("absent", {})
             call == IvyCall("get_object", op, None, NoWarning, "none",
                             <<>>, None, <<>>)
                         @@ [section |-> id, found |-> dir.metadata]
         IN /\ ivyDir' = dir
            /\ ivy' = IF cache_missing(dir) THEN call
                      ELSE IF dir.metadata = "file" THEN WithMetadata(call)
                      ELSE [call EXCEPT !.pc = "raised",
                                        !.raised = "ValueError"]
    /\ UNCHANGED ivyLog
    /\ UNCHANGED <<fetchVars, indexVars, imageVars, loaderVars, keysVars, callerVars>>

\* get_section_metadata, lines 50-53 and 33-35 (called at line 255): the
\* object is read from the store, or the store raises.
GetSectionMetadata ==
    /\ ivy.pc = "get_object"
    /\ ivyLog.fetched < MaxDownloads
    /\ LET sent == Append(ivy.requests,
                          Request("get_object", MetadataKey,
                                  get_public_boto3_client))
       IN \/ /\ ivy' = [ivy EXCEPT !.pc = "to_json", !.requests = sent]
             /\ ivyLog' = [ivyLog EXCEPT !.fetched = @ + 1]
          \/ /\ ivy' = [ivy EXCEPT !.pc = "raised", !.requests = sent,
                                   !.raised = "ClientError"]
             /\ UNCHANGED ivyLog
    /\ UNCHANGED ivyDir
    /\ UNCHANGED <<fetchVars, indexVars, imageVars, loaderVars, keysVars, callerVars>>

\* lines 256-260: the table is written to section_metadata.json; a write
\* that fails leaves no file, or a file cut short.
ToJson ==
    /\ ivy.pc = "to_json"
    /\ \/ /\ ivyDir' = [ivyDir EXCEPT !.metadata = "file"]
          /\ ivy' = WithMetadata(ivy)
          /\ UNCHANGED ivyLog
       \/ /\ \E left \in {"absent", "partial"} :
                ivyDir' = [ivyDir EXCEPT !.metadata = left]
          /\ ivy' = [ivy EXCEPT !.pc = "raised", !.raised = "OSError"]
          /\ ivyLog' = [ivyLog EXCEPT !.failed = TRUE]
    /\ UNCHANGED <<fetchVars, indexVars, imageVars, loaderVars, keysVars, callerVars>>

\* section_image_downloader, lines 309-326, for one URL: the file under
\* rel_path is opened for writing, which makes it or empties it, and the
\* object under rel_path is written into it; the store raises when there is
\* no such object.
SaveImage ==
    /\ ivy.pc = "images"
    /\ LET v == Head(ivy.todo)
           rel_path == rel_path_of(v)
           others == ivyDir.images \ FilesAt(ivyDir, rel_path)
           sent == Append(ivy.requests,
                          Request("download_fileobj", rel_path,
                                  get_public_boto3_client))
           saved == Append(ivy.saved, [url |-> v, path |-> rel_path])
       IN \/ /\ rel_path \in Range(IvyKeys)
             /\ ivyDir' = [ivyDir EXCEPT
                             !.images = others
                                 \cup {ImageFile(rel_path, rel_path)}]
             /\ ivy' = [ivy EXCEPT
                          !.pc = IF Len(ivy.todo) = 1 THEN "returned"
                                 ELSE "images",
                          !.todo = Tail(@),
                          !.requests = sent,
                          !.saved = saved]
          \/ /\ ivyDir' = [ivyDir EXCEPT
                             !.images = others \cup {EmptyFile(rel_path)}]
             /\ ivy' = [ivy EXCEPT !.pc = "raised",
                                   !.raised = "ClientError",
                                   !.requests = sent,
                                   !.saved = saved]
    /\ UNCHANGED ivyLog
    /\ UNCHANGED <<fetchVars, indexVars, imageVars, loaderVars, keysVars, callerVars>>

\* The caller has the result (or the exception) and may call again.
IvyFinish ==
    /\ ivy.pc \in {"returned", "raised"}
    /\ ivy' = NoIvyCall
    /\ UNCHANGED <<ivyDir, ivyLog>>
    /\ UNCHANGED <<fetchVars, indexVars, imageVars, loaderVars, keysVars, callerVars>>

IvyNext ==
    \/ NewImagePromise
    \/ PromiseLoad
    \/ LoadSectionMetadata
    \/ GetSectionMetadata
    \/ ToJson
    \/ SaveImage
    \/ IvyFinish

IvySpec == IvyInit /\ [][IvyNext]_vars

\* ---------------------------------------------- properties of ivy_gap_utils
\* C22: an ImagePromise constructed with neither an s3_client nor a
\* local_save_directory raises RuntimeError; one constructed with both
\* warns, and one constructed with one of them does not; load() of a promise
\* that was given a local_save_directory (with a client or without) asks
\* the remote store nothing and returns what it read on the local disk, and
\* load() of a promise that was given a client only sends one
\* download_fileobj through that client.
C22_ImagePromiseSource ==
    /\ (ivy.pc # "idle" /\ ivy.op = "ImagePromise") =>
          /\ ivy.raised = "RuntimeError" <=> ivy.promise = None
          /\ ivy.promise # None =>
                /\ ~(ivy.promise.local_save_dir = None
                     /\ ivy.promise.s3_client = None)
                /\ (ivy.warning # NoWarning) <=>
                       (ivy.promise.local_save_dir # None
                        /\ ivy.promise.s3_client # None)
    /\ (ivy.pc # "idle" /\ ivy.op = "ImagePromise.load") =>
          IF ivy.promise.local_save_dir # None
          THEN /\ ivy.requests = <<>>
               /\ ivy.pc = "returned" => ivy.result.source = "local"
          ELSE /\ Len(ivy.requests) = 1
               /\ ivy.requests[1].request = "download_fileobj"
               /\ ivy.requests[1].client = ivy.promise.s3_client
               /\ ivy.pc = "returned" => ivy.result.source = "s3"

C22_Witness ==
    /\ ivy.pc = "returned"
    /\ ivy.op = "ImagePromise.load"
    /\ ivy.promise.local_save_dir # None
    /\ ivy.promise.s3_client # None
    /\ ivy.warning # NoWarning
    /\ ivy.requests = <<>>
    /\ ivy.result.source = "local"

MetadataRequests(requests) ==
    {i \in DOMAIN requests : requests[i].request = "get_object"}

IsLoaderCall == ivy.pc # "idle" /\ ivy.op \in IvyLoaderOps

\* C23: over any sequence of calls of local_section_metadata_loader (made
\* directly, or by section_image_downloader) on one directory: a call that
\* finds section_metadata.json there sends no request for the metadata and
\* leaves the file alone; a call that finds it missing requests it, once,
\* and when its write has succeeded the file is there; and as long as no
\* write of the file has failed, the metadata has been downloaded at most
\* once.
C23_CachedByPresence ==
    /\ IsLoaderCall =>
          /\ ivy.found # "absent" =>
                /\ MetadataRequests(ivy.requests) = {}
                /\ ivyDir.metadata = ivy.found
          /\ (ivy.found = "absent" /\ ivy.pc # "get_object") =>
                Cardinality(MetadataRequests(ivy.requests)) = 1
          /\ (ivy.found = "absent" /\ ivy.pc \in {"images", "returned"}) =>
                ivyDir.metadata = "file"
    /\ ~ivyLog.failed => ivyLog.fetched <= 1

C23_Witness ==
    /\ ivy.pc = "returned"
    /\ ivy.op = "local_section_metadata_loader"
    /\ ivy.found = "file"
    /\ ivy.requests = <<>>
    /\ ivyLog.fetched = 1
    /\ ~ivyLog.failed

\* ========================================= more properties of the fetcher
\* C24: there is no lock: two processes that find the same local path
\* missing or out of date can both transfer to it (the witness); all the
\* same, at the step a call returns it has just compared the md5 of the
\* local file with the digest it obtained from the store and found them
\* equal.
C24_UncoordinatedWriters ==
    [][\A p \in Procs :
          (pc[p] # "returned" /\ pc'[p] = "returned") =>
            /\ local.kind = "file"
            /\ Md5(local.body) = target_md5'[p]
            /\ local' = local]_vars

C24_Witness ==
    \E p, q \in Procs :
        /\ p # q
        /\ pc[p] = "returned" /\ pc[q] = "returned"
        /\ transferred[p] /\ transferred[q]
        /\ startLocal[p].kind = "absent"
        /\ startLocal[q].kind = "absent"
        /\ local.mtime = 2

\* ================================== the caller of a SectionDataSet
MaxMutations == 2

\* A value the caller got from the dataset: the attribute of the dataset
\* the value is (the same object), or "copy" for an object of its own.
Kept(attr, value) ==
    [attr |-> attr, value |-> value, mutations |-> held.mutations]

\* SectionDataSet.tissue_indices, lines 332-338: self._tissue_indices
tissue_indices(self) == Kept("_tissue_indices", self.tissue_indices)

\* SectionDataSet.sub_image_ids, lines 340-346: self._subimg_ids
sub_image_ids(self) == Kept("_subimg_ids", self.sub_image_ids)

\* line 361: copy.deepcopy returns a new object.
A_copy_of(value) == Kept("copy", value)

\* What a caller can do to a list (append, pop(0)) and to a dict (assign
\* to a key) it holds.
Mutations(kept) ==
    IF kept.attr = "copy"
    THEN {[kept.value EXCEPT !.image_file_name = "changed.tif"],
          [kept.value EXCEPT !.downsampling = <<>>]}
    ELSE {Append(kept.value, 0)}
         \cup (IF kept.value = <<>> THEN {} ELSE {Tail(kept.value)})

\* ------------------------------------------------------------------ Init
\* The dataset has been constructed, as for the image download.
CallerInit ==
    /\ FetchIdle
    /\ RestIdle
    /\ batch \in ImageBatches
    /\ variant = "open_dataset_tools"
    /\ ds = SectionDataSet(batch)
    /\ lastCall = NoCall
    /\ held = NothingHeld

\* --------------------------------------------------------------- actions
ReadTissueIndices ==
    /\ held' = tissue_indices(ds)
    /\ UNCHANGED <<fetchVars, indexVars, imageVars, loaderVars, keysVars, ivyVars>>

ReadSubImageIds ==
    /\ held' = sub_image_ids(ds)
    /\ UNCHANGED <<fetchVars, indexVars, imageVars, loaderVars, keysVars, ivyVars>>

\* image_metadata_from_tissue_index / image_metadata_from_sub_image, with
\* the record returned kept by the caller.
KeepLookupResult ==
    /\ \E op \in {"image_metadata_from_tissue_index",
                  "image_metadata_from_sub_image"}, arg \in DownloadArgs :
         LET r == IF op = "image_metadata_from_tissue_index"
                  THEN image_metadata_from_tissue_index(ds, arg)
                  ELSE image_metadata_from_sub_image(ds, arg)
         IN /\ lastCall' = Called(op, arg, r)
            /\ held' = IF r.result = None THEN held
                       ELSE A_copy_of(r.result)
    /\ UNCHANGED <<batch, variant, ds>>
    /\ UNCHANGED <<fetchVars, imageVars, loaderVars, keysVars, ivyVars>>

\* The caller changes, in place, the object it holds; an object that is an
\* attribute of the dataset is changed in the dataset.
MutateHeld ==
    /\ held.attr # "none"
    /\ held.mutations < MaxMutations
    /\ \E v \in Mutations(held) :
         /\ held' = [held EXCEPT !.value = v, !.mutations = @ + 1]
         /\ ds' = IF held.attr = "_tissue_indices"
                  THEN [ds EXCEPT !.tissue_indices = v]
                  ELSE IF held.attr = "_subimg_ids"
                  THEN [ds EXCEPT !.sub_image_ids = v]
                  ELSE ds
    /\ UNCHANGED <<batch, variant, lastCall>>
    /\ UNCHANGED <<fetchVars, imageVars, loaderVars, keysVars, ivyVars>>

CallerNext ==
    \/ ReadTissueIndices
    \/ ReadSubImageIds
    \/ KeepLookupResult
    \/ MutateHeld

CallerSpec == CallerInit /\ [][CallerNext]_vars

\* ------------------------------------- properties of the dataset in use
\* C25: once a SectionDataSet of open_dataset_tools is built, no public
\* operation and no change the caller makes to a value an operation
\* returned changes the dataset: its lookup mappings, its tissue_indices
\* and its sub_image_ids stay as they were built.
C25_IndexImmutable ==
    /\ ds.tissue_index_to_section_img =
           SectionDataSet(batch).tissue_index_to_section_img
    /\ ds.subimg_to_tissue_index = SectionDataSet(batch).subimg_to_tissue_index
    /\ ds.tissue_index_to_subimg = SectionDataSet(batch).tissue_index_to_subimg
    /\ ds.tissue_indices = SectionDataSet(batch).tissue_indices
    /\ ds.sub_image_ids = SectionDataSet(batch).sub_image_ids

\* C25, for the lookup mappings alone: they, and with them the result of
\* every later lookup, stay as they were built, whatever the caller does to
\* the records and the lists it was given.
C25_MappingsImmutable ==
    /\ ds.tissue_index_to_section_img =
           SectionDataSet(batch).tissue_index_to_section_img
    /\ ds.subimg_to_tissue_index = SectionDataSet(batch).subimg_to_tissue_index
    /\ ds.tissue_index_to_subimg = SectionDataSet(batch).tissue_index_to_subimg
    /\ lastCall.op = "image_metadata_from_tissue_index" =>
          lastCall.result =
              image_metadata_from_tissue_index(SectionDataSet(batch),
                                               lastCall.arg).result

C25_WitnessMappings ==
    /\ held.attr = "copy"
    /\ held.mutations = 2
    /\ held.value.downsampling = <<>>
    /\ held.value.image_file_name = "changed.tif"
    /\ lastCall.op = "image_metadata_from_tissue_index"
    /\ lastCall.result # None
    /\ lastCall.result.image_file_name = "a.tif"

\* The body of the object the call found in its listing.
ListedBody(p) ==
    CHOOSE b \in Bodies :
        SubSeq(RemoteDigest(startListing[p][1].ETag), 1, 2) = Md5(b)

\* The call leaves its verification with other bytes in the file than the
\* object it listed had: it raises the RuntimeError of the checksum, and
\* the file stays as the transfer left it.
RaisesOnOtherBytes ==
    [][\A p \in Procs :
          (/\ pc[p] = "verify" /\ pc'[p] # "verify"
           /\ local.body # ListedBody(p)) =>
              /\ pc'[p] = "raised"
              /\ err'[p] = "RuntimeError:md5"
              /\ local' = local]_vars

\* The call found, as the file, the bytes of the one object of its listing,
\* and the store has not changed since it began.
BeganOnCurrentBytes(p) ==
    /\ pc[p] # "idle"
    /\ unchanged[p]
    /\ Len(startListing[p]) = 1
    /\ startLocal[p].kind = "file"
    /\ startLocal[p].body = bucket[1].body

\* C26: when the object is replaced between the listing of a call and its
\* transfer, the call raises the RuntimeError of the checksum and the bytes
\* transferred stay in the file; and a call that then begins on these
\* bytes, the store unchanged, returns normally.
C26_RemoteChangeDuringFetch ==
    /\ RaisesOnOtherBytes
    /\ [](\A p \in Procs :
             (BeganOnCurrentBytes(p) /\ pc[p] \in {"returned", "raised"}) =>
                 pc[p] = "returned")

\* C26, for an object whose ETag is the md5 of its bytes (no multipart
\* upload): the later call returns, and without a transfer.
C26_RemoteChangeSinglePart ==
    /\ RaisesOnOtherBytes
    /\ [](\A p \in Procs :
             (/\ BeganOnCurrentBytes(p) /\ ~bucket[1].multipart
              /\ pc[p] \in {"returned", "raised"}) =>
                 (pc[p] = "returned" /\ ~transferred[p]))

\* One call found an older file, listed, saw the object replaced, transferred
\* and raised; the next call found the new bytes and returned.
C26_WitnessSinglePart ==
    \E p, q \in Procs :
        /\ pc[q] = "raised" /\ err[q] = "RuntimeError:md5"
        /\ transferred[q]
        /\ startLocal[q].kind = "file" /\ startLocal[q].mtime = 0
        /\ ListedBody(q) # local.body
        /\ local.body # startLocal[q].body
        /\ remoteChanges = 1
        /\ calls = 2
        /\ pc[p] = "returned" /\ ~transferred[p]
        /\ startLocal[p].mtime = 1
        /\ local = startLocal[p]

\* The key K of an image URL "s3://allen-ivy-glioblastoma-atlas/" K.
KeyOfUrl(url) == SubSeq(url, Len(BucketUrl) + 1, Len(url))

\* The keys asked of the store for images by the call.
ImageKeysAsked ==
    {ivy.requests[i].key :
        i \in {j \in DOMAIN ivy.requests :
                  ivy.requests[j].request = "download_fileobj"}}

\* ImagePromise.load has used the key k for the URL of its promise, as the
\* key of the object or as the path under the directory.
LoadUsed(k) ==
    /\ ImageKeysAsked \subseteq {k}
    /\ ivy.pc = "returned" => ivy.result.path = k

\* section_image_downloader has used, for the URLs it came to, the paths
\* (one for each URL, in their order) as the paths of the files and as the
\* keys of the objects.
DownloaderUsed(paths) ==
    /\ [i \in DOMAIN ivy.saved |-> ivy.saved[i].path] = paths
    /\ ImageKeysAsked = Range(paths)
    /\ \A i \in DOMAIN paths : FilesAt(ivyDir, paths[i]) # {}

\* C28: for an image URL "s3://allen-ivy-glioblastoma-atlas/" K,
\* ImagePromise.load and section_image_downloader use K, whatever its first
\* characters, as the key of the object and as the path under the local
\* directory.
C28_KeyDerivation ==
    /\ (ivy.pc \in {"returned", "raised"} /\ ivy.op = "ImagePromise.load") =>
           LoadUsed(KeyOfUrl(ivy.promise.s3_obj_url))
    /\ (ivy.pc # "idle" /\ ivy.op = "section_image_downloader") =>
           DownloaderUsed([i \in DOMAIN ivy.saved |->
                              KeyOfUrl(ivy.saved[i].url)])

\* C28, the consequence alone: both functions derive the path from the URL
\* in the same way (the leading characters of the bucket URL removed), so
\* the file the downloader writes for a URL is the file load opens for it.
C28_SamePathBothWays ==
    /\ (ivy.pc \in {"returned", "raised"} /\ ivy.op = "ImagePromise.load") =>
           LoadUsed(lstrip_chars(ivy.promise.s3_obj_url, BucketUrl))
    /\ (ivy.pc # "idle" /\ ivy.op = "section_image_downloader") =>
           DownloaderUsed([i \in DOMAIN ivy.saved |->
                              lstrip_chars(ivy.saved[i].url, BucketUrl)])

\* The downloader came to the URL of the key "sub/x".
C28_WitnessSamePath ==
    /\ ivy.pc = "raised" /\ ivy.op = "section_image_downloader"
    /\ Len(ivy.saved) = 2
    /\ ivy.saved[2].url = BucketUrl \o KeySub
    /\ ivy.saved[2].path = <<"u", "b", "/", "x">>
    /\ EmptyFile(<<"u", "b", "/", "x">>) \in ivyDir.images

\* C29: in open_dataset_tools, when the scratch file is opened by its path
\* for decoding, the file on disk holds every byte the download wrote into
\* the scratch file object, and the image saved is cut from the whole
\* image.
C29_DecoderSeesWholeDownload ==
    variant = "open_dataset_tools" =>
        /\ dl.pc = "crop" => dl.ondisk.complete
        /\ (dl.pc = "returned" /\ dl.result = TRUE) =>
               savepath.body.complete

\* What does hold: the image saved is cut from what the file on disk held
\* when it was opened, whole or not.
C29_CropOfWhatIsOnDisk ==
    (/\ variant = "open_dataset_tools"
     /\ dl.pc = "returned" /\ dl.result = TRUE) =>
        savepath = SaveFile(Pixels(dl.ondisk.image, dl.ondisk.complete,
                                   dl.box))

C29_WitnessOnDisk ==
    /\ variant = "open_dataset_tools"
    /\ dl.pc = "returned" /\ dl.result = TRUE
    /\ ~dl.ondisk.complete
    /\ ~savepath.body.complete
    /\ savepath.body.image = ExpectedKey

\* ==================================================== the viewer URLs
\* SectionDataSet.sub_image_url, lines 539-545
sub_image_url(self, sub_image_id) ==
    <<"http://mouse.brain-map.org/experiment/siv?id=">>
        \o FormatD(self.section_id) \o <<"&imageId=">>
        \o FormatD(sub_image_id) \o <<"&initImage=ish">>

\* Faulty variant: the tissue index is taken for the sub-image ID.
tissue_index_url_direct(self, tissue_index) ==
    [result |-> sub_image_url(self, tissue_index), raised |-> "none",
     warning |-> NoWarning]

\* SectionDataSet.tissue_index_url, lines 547-553; a tissue index that is
\* no key of tissue_index_to_subimg raises KeyError.
tissue_index_url(self, tissue_index) ==
    IF tissue_index \notin DOMAIN self.tissue_index_to_subimg
    THEN [result |-> None, raised |-> "KeyError", warning |-> NoWarning]
    ELSE [result |-> sub_image_url(self,
                         self.tissue_index_to_subimg[tissue_index]),
          raised |-> "none", warning |-> NoWarning]

\* A batch is at hand; no dataset has been constructed.
UrlInit ==
    /\ FetchIdle
    /\ RestIdle
    /\ batch \in Batches
    /\ variant = "none"
    /\ ds = NoDataSet
    /\ lastCall = NoCall

TissueIndexUrl ==
    /\ ds.status = "built"
    /\ \E t \in LookupArgs :
         lastCall' = Called("tissue_index_url", t, tissue_index_url(ds, t))
    /\ UNCHANGED <<batch, variant, ds>>
    /\ UNCHANGED <<fetchVars, restVars>>

SubImageUrl ==
    /\ ds.status = "built"
    /\ \E s \in LookupArgs :
         lastCall' = Called("sub_image_url", s,
                            [result |-> sub_image_url(ds, s),
                             raised |-> "none", warning |-> NoWarning])
    /\ UNCHANGED <<batch, variant, ds>>
    /\ UNCHANGED <<fetchVars, restVars>>

UrlNext ==
    \/ Construct
    \/ TissueIndexUrl
    \/ SubImageUrl

UrlSpec == UrlInit /\ [][UrlNext]_vars

\* C30: in the SectionDataSet of open_dataset_tools as constructed,
\* tissue_index_to_subimg and subimg_to_tissue_index are inverse to each
\* other, the tissue indices they relate are exactly the keys of
\* tissue_index_to_section_img, and for each t of tissue_indices the record
\* under t has section_number t and id tissue_index_to_subimg[t];
\* tissue_index_url(t) is sub_image_url of the id of that record.
C30_Bijection ==
    IsCurrent =>
        LET t2s == ds.tissue_index_to_subimg
            s2t == ds.subimg_to_tissue_index
            t2img == ds.tissue_index_to_section_img
        IN /\ DOMAIN t2s = DOMAIN t2img
           /\ Range(s2t) = DOMAIN t2img
           /\ Range(t2s) = DOMAIN s2t
           /\ \A t \in DOMAIN t2s : s2t[t2s[t]] = t
           /\ \A s \in DOMAIN s2t : t2s[s2t[s]] = s
           /\ \A t \in Range(ds.tissue_indices) :
                 /\ t \in DOMAIN t2img
                 /\ t2img[t].section_number = t
                 /\ t2img[t].id = t2s[t]
                 /\ tissue_index_url(ds, t).raised = "none"
                 /\ tissue_index_url(ds, t).result
                        = sub_image_url(ds, t2img[t].id)
           /\ (/\ lastCall.op = "tissue_index_url"
               /\ lastCall.arg \in Range(ds.tissue_indices)) =>
                  /\ lastCall.raised = "none"
                  /\ lastCall.result
                         = sub_image_url(ds, t2img[lastCall.arg].id)

\* Two records; the URL of the tissue index of the second was asked for,
\* and that index is the sub-image ID of the first.
C30_Witness ==
    /\ IsCurrent
    /\ Len(batch) = 2
    /\ batch[2].section_number = batch[1].id
    /\ batch[2].section_number # batch[2].id
    /\ lastCall.op = "tissue_index_url"
    /\ lastCall.arg = batch[2].section_number
    /\ lastCall.result = sub_image_url(ds, batch[2].id)

====
